---- MODULE Spec2Model ----
(***************************************************************************)
(* A model of the Bengali literature RAG application: the text normalizer  *)
(* and content structurer (text_preprocessor.py), the vector store         *)
(* (vector_store.py), the retrieval orchestrator (rag_system.py) and the   *)
(* interaction memory (memory_manager.py).                                 *)
(*                                                                         *)
(* A text is a sequence of characters; a character is a one-element string *)
(* naming a code point ("a", " ", "U0997" for U+0997).                     *)
(***************************************************************************)
EXTENDS Integers, Sequences, FiniteSets, TLC

VARIABLES
    \* ConversationMemory (memory_manager.py)
    max_size, conversations, session_id, now, appended,
    \* detect_language (rag_system.py)
    langText, langResult,
    \* the structurer run on one source document (text_preprocessor.py)
    structDoc, structChunks, structured, structRows,
    \* the vector store (vector_store.py): the knowledge base file, the
    \* embedding model, the persistent collection, and the last call with
    \* its outcome
    source, embed, collection, call,
    \* DocumentMemory (memory_manager.py): the usage statistics
    query_patterns, document_access_frequency, user_preferences,
    \* the surroundings of the application: whether the index backend puts
    \* distances into its query results, whether the collection the store
    \* holds a handle of was deleted, the saved session files and the
    \* persisted statistics file
    distances, deleted, session_files, memory_file,
    \* BengaliRAGSystem (rag_system.py): per thread that calls into the
    \* system, where it is in process_query and what the call holds in its
    \* local variables
    running

varsMem == <<max_size, conversations, session_id, now, appended>>
varsLang == <<langText, langResult>>
varsStruct == <<structDoc, structChunks, structured, structRows>>
varsIndex == <<source, embed, collection, call>>
varsStats == <<query_patterns, document_access_frequency, user_preferences>>
varsEnv == <<distances, deleted, session_files, memory_file>>
vars ==
    <<max_size, conversations, session_id, now, appended, langText, langResult,
      structDoc, structChunks, structured, structRows, source, embed, collection, call,
      query_patterns, document_access_frequency, user_preferences,
      distances, deleted, session_files, memory_file, running>>

----------------------------------------------------------------------------
(* Bounds of the model *)

\* add_conversation calls modelled since the last clear
MaxAppends == 4
\* clock ticks modelled
MaxTime == 3
\* largest explicit ConversationMemory capacity modelled besides the default
MaxCapacity == 3
\* characters in a text handed to detect_language
MaxLangLen == 4
\* process_query calls modelled
MaxQueries == 2

----------------------------------------------------------------------------
(* Generic helpers *)

Min(a, b) == IF a <= b THEN a ELSE b

Range(s) == {s[i] : i \in 1..Len(s)}

\* the last n elements of s (all of s when n >= Len(s))
LastN(s, n) == SubSeq(s, Len(s) - Min(n, Len(s)) + 1, Len(s))

\* all sequences over S of length at most n
SeqsUpTo(S, n) == UNION {[1..k -> S] : k \in 0..n}

----------------------------------------------------------------------------
(* Characters *)

LowerCase ==
    <<"a","b","c","d","e","f","g","h","i","j","k","l","m",
      "n","o","p","q","r","s","t","u","v","w","x","y","z">>

UpperCase ==
    <<"A","B","C","D","E","F","G","H","I","J","K","L","M",
      "N","O","P","Q","R","S","T","U","V","W","X","Y","Z">>

\* U+0980..U+09FF letters (category Lo) used by the model
BengaliLetters ==
    {"U0985","U0989","U0993","U0995","U0996","U0997","U0999","U099A","U09A0",
     "U09A3","U09A4","U09A5","U09A6","U09A8","U09AA","U09AC","U09AE","U09AF",
     "U09B0","U09B2","U09B6","U09B8","U09B9","U09CE","U09DF"}

\* U+0980..U+09FF combining marks (categories Mn, Mc) used by the model
BengaliMarks ==
    {"U0982","U0983","U09BC","U09BE","U09BF","U09C0","U09C1","U09C7","U09CB","U09CD"}

\* whitespace: space, tab (U+0009), line feed (U+000A)
IsSpace(c) == c \in {" ", "U0009", "U000A"}

Digits == {"0","1","2","3","4","5","6","7","8","9"}

BengaliBlock == BengaliLetters \cup BengaliMarks

\* bengali_pattern = re.compile(r'[\u0980-\u09FF]')
bengali_pattern == BengaliBlock

LatinLetters == Range(LowerCase) \cup Range(UpperCase)

\* english_pattern = re.compile(r'[a-zA-Z]')
english_pattern == LatinLetters

\* number of characters of text matching the one-character pattern P
RECURSIVE CountMatches(_, _)
CountMatches(pattern, text) ==
    IF text = <<>> THEN 0
    ELSE (IF Head(text) \in pattern THEN 1 ELSE 0) + CountMatches(pattern, Tail(text))

----------------------------------------------------------------------------
(* BengaliTextPreprocessor: normalize_unicode and clean_text *)

\* concatenation of a sequence of texts
RECURSIVE Flatten(_)
Flatten(ss) == IF ss = <<>> THEN <<>> ELSE Head(ss) \o Flatten(Tail(ss))

\* canonical decomposition of one character (U+09DF and U+09CB decompose)
DecomposeChar(c) ==
    IF c = "U09DF" THEN <<"U09AF", "U09BC">>
    ELSE IF c = "U09CB" THEN <<"U09C7", "U09BE">>
    ELSE <<c>>

\* canonical combining class: nukta 7, virama 9, every other character 0
CCC(c) == IF c = "U09BC" THEN 7 ELSE IF c = "U09CD" THEN 9 ELSE 0

\* canonical ordering: adjacent marks are exchanged while a mark of a higher
\* non-zero class precedes one of a lower non-zero class
RECURSIVE Reorder(_)
Reorder(text) ==
    LET bad == {i \in 1..(Len(text) - 1) :
                    CCC(text[i + 1]) > 0 /\ CCC(text[i]) > CCC(text[i + 1])}
    IN  IF bad = {} THEN text
        ELSE LET i == CHOOSE j \in bad : \A k \in bad : j <= k
             IN  Reorder([text EXCEPT ![i] = text[i + 1], ![i + 1] = text[i]])

\* canonical composition: U+09C7 directly followed by U+09BE composes to
\* U+09CB (U+09AF U+09BC is excluded from composition)
RECURSIVE Compose(_)
Compose(text) ==
    IF Len(text) < 2 THEN text
    ELSE IF text[1] = "U09C7" /\ text[2] = "U09BE"
         THEN <<"U09CB">> \o Compose(SubSeq(text, 3, Len(text)))
         ELSE <<text[1]>> \o Compose(Tail(text))

\* unicodedata.normalize('NFC', text)
NFC(text) ==
    Compose(Reorder(Flatten([i \in 1..Len(text) |-> DecomposeChar(text[i])])))

\* BengaliTextPreprocessor.normalize_unicode: NFC, then khanda ta (U+09CE)
\* is replaced by ta + virama; the other two replacements map a character
\* to itself
normalize_unicode(text) ==
    LET t == NFC(text)
    IN  Flatten([i \in 1..Len(t) |->
                    IF t[i] = "U09CE" THEN <<"U09A4", "U09CD">> ELSE <<t[i]>>])

\* whitespace_pattern.sub(' ', text): every maximal whitespace run becomes
\* one space
RECURSIVE CollapseWhitespace(_)
CollapseWhitespace(text) ==
    IF text = <<>> THEN <<>>
    ELSE IF IsSpace(Head(text))
         THEN IF Len(text) >= 2 /\ IsSpace(text[2])
              THEN CollapseWhitespace(Tail(text))
              ELSE <<" ">> \o CollapseWhitespace(Tail(text))
         ELSE <<Head(text)>> \o CollapseWhitespace(Tail(text))

\* str.strip()
RECURSIVE Strip(_)
Strip(text) ==
    IF text = <<>> THEN <<>>
    ELSE IF IsSpace(Head(text)) THEN Strip(Tail(text))
    ELSE IF IsSpace(text[Len(text)]) THEN Strip(SubSeq(text, 1, Len(text) - 1))
    ELSE text

\* BengaliTextPreprocessor.clean_text
clean_text(text) ==
    IF text = <<>> THEN <<>>
    ELSE Strip(CollapseWhitespace(normalize_unicode(text)))

----------------------------------------------------------------------------
(* Dictionaries: a dict is the sequence of its <<key, value>> items in     *)
(* insertion order, with pairwise distinct keys                            *)

DictHas(d, k) == \E i \in 1..Len(d) : d[i][1] = k

DictGet(d, k) == d[CHOOSE i \in 1..Len(d) : d[i][1] = k][2]

\* d[k] = v: an existing key keeps its position, a new key goes last
DictSet(d, k, v) ==
    IF DictHas(d, k)
    THEN [i \in 1..Len(d) |-> IF d[i][1] = k THEN <<k, v>> ELSE d[i]]
    ELSE Append(d, <<k, v>>)

\* the sum of the values of a dict of numbers
RECURSIVE SumValues(_)
SumValues(d) == IF d = <<>> THEN 0 ELSE Head(d)[2] + SumValues(Tail(d))

\* the sum of the count fields of a dict of records
RECURSIVE SumCounts(_)
SumCounts(d) == IF d = <<>> THEN 0 ELSE Head(d)[2].count + SumCounts(Tail(d))

\* list(d.values())
DictValues(d) == [i \in 1..Len(d) |-> d[i][2]]

\* {k: clean_text(v) for k, v in d.items()}
CleanValues(d) == [i \in 1..Len(d) |-> <<d[i][1], clean_text(d[i][2])>>]

\* sep.join(parts)
RECURSIVE Join(_, _)
Join(parts, sep) ==
    IF parts = <<>> THEN <<>>
    ELSE IF Len(parts) = 1 THEN parts[1]
    ELSE parts[1] \o sep \o Join(Tail(parts), sep)

\* the number of items of a dict of groups, summed over the groups
RECURSIVE GroupItemCount(_)
GroupItemCount(groups) ==
    IF groups = <<>> THEN 0
    ELSE Len(Head(groups)[2]) + GroupItemCount(Tail(groups))

----------------------------------------------------------------------------
(* BengaliTextPreprocessor.extract_sentences *)

\* the sentence terminators of re.split(r'[।!?]', text): danda, ! and ?
IsTerminator(c) == c \in {"U0964", "!", "?"}

\* re.split on the terminators: the pieces between them, empty ones included
RECURSIVE SplitSentences(_, _)
SplitSentences(text, piece) ==
    IF text = <<>> THEN <<piece>>
    ELSE IF IsTerminator(Head(text))
         THEN <<piece>> \o SplitSentences(Tail(text), <<>>)
         ELSE SplitSentences(Tail(text), Append(piece, Head(text)))

extract_sentences(text) ==
    LET pieces == SplitSentences(text, <<>>)
        kept == SelectSeq(pieces, LAMBDA sent : Strip(sent) # <<>>)
    IN  [i \in 1..Len(kept) |-> clean_text(kept[i])]

----------------------------------------------------------------------------
(* BengaliTextPreprocessor.preprocess_json_content                         *)
(*                                                                         *)
(* A source document is a record: present is the set of keys that          *)
(* organized_sections holds, and each key's field is its value (read only  *)
(* when the key is present).                                               *)

\* processed_story
ProcessStory(story_text) ==
    [i \in 1..Len(story_text) |->
        [section |-> story_text[i].section,
         title |-> clean_text(story_text[i].title),
         content |-> clean_text(story_text[i].content),
         sentences |-> extract_sentences(story_text[i].content)]]

\* processed_q; q.get('explanation', '') is the empty text when the key is
\* missing
ProcessQuestion(q) ==
    [question_number |-> q.question_number,
     question |-> clean_text(q.question),
     options |-> CleanValues(q.options),
     correct_answer |-> q.correct_answer,
     explanation |-> clean_text(IF q.has_explanation THEN q.explanation ELSE <<>>)]

\* processed_mcq
ProcessMcq(mcq_questions) ==
    [c \in 1..Len(mcq_questions) |->
        <<mcq_questions[c][1],
          [i \in 1..Len(mcq_questions[c][2]) |->
                ProcessQuestion(mcq_questions[c][2][i])]>>]

\* processed_creative; cq.get('answers', {}) is empty when the key is missing
ProcessCreative(creative_questions) ==
    [i \in 1..Len(creative_questions) |->
        [question_number |-> creative_questions[i].question_number,
         context |-> clean_text(creative_questions[i].context),
         questions |-> CleanValues(creative_questions[i].questions),
         answers |-> CleanValues(IF creative_questions[i].has_answers
                                 THEN creative_questions[i].answers
                                 ELSE <<>>)]]

\* processed_section[clean_text(word)] = clean_text(meaning), for the items
\* of meanings from position n on
RECURSIVE ProcessMeanings(_, _, _)
ProcessMeanings(meanings, n, processed_section) ==
    IF n > Len(meanings) THEN processed_section
    ELSE ProcessMeanings(meanings, n + 1,
            DictSet(processed_section,
                    clean_text(meanings[n][1]), clean_text(meanings[n][2])))

\* processed_meanings
ProcessWordMeanings(word_meanings) ==
    [s \in 1..Len(word_meanings) |->
        <<word_meanings[s][1], ProcessMeanings(word_meanings[s][2], 1, <<>>)>>]

\* processed_author; the values modelled are strings
ProcessAuthor(author_info) == CleanValues(author_info)

\* processed_char: a string value is cleaned, any other value is kept; a
\* value is [is_str, text], text being str(value)
ProcessChar(char_info) ==
    [i \in 1..Len(char_info) |->
        <<char_info[i][1],
          IF char_info[i][2].is_str
          THEN [is_str |-> TRUE, text |-> clean_text(char_info[i][2].text)]
          ELSE char_info[i][2]>>]

\* processed_characters
ProcessCharacters(characters) ==
    [c \in 1..Len(characters) |->
        <<characters[c][1],
          [i \in 1..Len(characters[c][2]) |->
                <<characters[c][2][i][1], ProcessChar(characters[c][2][i][2])>>]>>]

preprocess_json_content(data) ==
    [present |-> data.present,
     story_text |->
        IF "story_text" \in data.present
        THEN ProcessStory(data.story_text) ELSE <<>>,
     mcq_questions |->
        IF "mcq_questions" \in data.present
        THEN ProcessMcq(data.mcq_questions) ELSE <<>>,
     creative_questions |->
        IF "creative_questions" \in data.present
        THEN ProcessCreative(data.creative_questions) ELSE <<>>,
     word_meanings |->
        IF "word_meanings" \in data.present
        THEN ProcessWordMeanings(data.word_meanings) ELSE <<>>,
     author_info |->
        IF "author_info" \in data.present
        THEN ProcessAuthor(data.author_info) ELSE <<>>,
     characters_detailed |->
        IF "characters_detailed" \in data.present
        THEN ProcessCharacters(data.characters_detailed) ELSE <<>>]

----------------------------------------------------------------------------
(* BengaliTextPreprocessor.create_searchable_chunks *)

\* the labels of the f-strings that render a chunk's content
LabelQuestion == <<"U09AA","U09CD","U09B0","U09B6","U09CD","U09A8",":"," ">>
LabelAnswer == <<" ","U0989","U09A4","U09CD","U09A4","U09B0",":"," ">>
LabelContext == <<"U09AA","U09CD","U09B0","U09B8","U0999","U09CD","U0997",":"," ">>
LabelQuestionsAnswers ==
    <<" ","U09AA","U09CD","U09B0","U09B6","U09CD","U09A8"," ","U0993"," ",
      "U0989","U09A4","U09CD","U09A4","U09B0",":"," ">>
LabelWord == <<"U09B6","U09AC","U09CD","U09A6",":"," ">>
LabelMeaning == <<" ","U0985","U09B0","U09CD","U09A5",":"," ">>
LabelCharacter == <<"U099A","U09B0","U09BF","U09A4","U09CD","U09B0",":"," ">>

StoryChunk(section) ==
    [type |-> "story",
     section |-> section.section,
     title |-> section.title,
     content |-> section.content,
     metadata |-> [section_number |-> section.section,
                   content_type |-> "narrative"]]

McqChunk(category, q) ==
    [type |-> "mcq",
     question |-> q.question,
     options |-> q.options,
     answer |-> q.correct_answer,
     explanation |-> q.explanation,
     content |-> LabelQuestion \o q.question \o LabelAnswer \o q.explanation,
     metadata |-> [category |-> category,
                   question_number |-> q.question_number,
                   content_type |-> "question_answer"]]

CreativeChunk(cq) ==
    [type |-> "creative",
     context |-> cq.context,
     questions |-> cq.questions,
     answers |-> cq.answers,
     content |-> LabelContext \o cq.context \o LabelQuestionsAnswers
                    \o Join(DictValues(cq.answers), <<" ">>),
     metadata |-> [question_number |-> cq.question_number,
                   content_type |-> "creative_question"]]

WordMeaningChunk(section, word, meaning) ==
    [type |-> "word_meaning",
     word |-> word,
     meaning |-> meaning,
     content |-> LabelWord \o word \o LabelMeaning \o meaning,
     metadata |-> [section |-> section,
                   content_type |-> "vocabulary"]]

\* content_parts joined by a space: the name, then "key: value" per field
CharacterChunk(category, char_name, char_info) ==
    [type |-> "character",
     character_name |-> char_name,
     character_info |-> char_info,
     content |->
        Join(<<LabelCharacter \o char_name>> \o
             [i \in 1..Len(char_info) |->
                char_info[i][1] \o <<":", " ">> \o char_info[i][2].text],
             <<" ">>),
     metadata |-> [category |-> category,
                   content_type |-> "character_description"]]

\* one chunk per question of every category, in order
McqChunks(groups) ==
    Flatten([g \in 1..Len(groups) |->
                [i \in 1..Len(groups[g][2]) |->
                    McqChunk(groups[g][1], groups[g][2][i])]])

\* one chunk per word of every glossary section, in order
WordMeaningChunks(groups) ==
    Flatten([g \in 1..Len(groups) |->
                [i \in 1..Len(groups[g][2]) |->
                    WordMeaningChunk(groups[g][1], groups[g][2][i][1],
                                     groups[g][2][i][2])]])

\* one chunk per character of every category, in order
CharacterChunks(groups) ==
    Flatten([g \in 1..Len(groups) |->
                [i \in 1..Len(groups[g][2]) |->
                    CharacterChunk(groups[g][1], groups[g][2][i][1],
                                   groups[g][2][i][2])]])

\* a structurer that emits the character chunks first
create_searchable_chunks_characters_first(processed_data) ==
    (IF "characters_detailed" \in processed_data.present
     THEN CharacterChunks(processed_data.characters_detailed)
     ELSE <<>>)
    \o
    (IF "story_text" \in processed_data.present
     THEN [i \in 1..Len(processed_data.story_text) |->
                StoryChunk(processed_data.story_text[i])]
     ELSE <<>>)
    \o
    (IF "mcq_questions" \in processed_data.present
     THEN McqChunks(processed_data.mcq_questions)
     ELSE <<>>)
    \o
    (IF "creative_questions" \in processed_data.present
     THEN [i \in 1..Len(processed_data.creative_questions) |->
                CreativeChunk(processed_data.creative_questions[i])]
     ELSE <<>>)
    \o
    (IF "word_meanings" \in processed_data.present
     THEN WordMeaningChunks(processed_data.word_meanings)
     ELSE <<>>)

create_searchable_chunks(processed_data) ==
    (IF "story_text" \in processed_data.present
     THEN [i \in 1..Len(processed_data.story_text) |->
                StoryChunk(processed_data.story_text[i])]
     ELSE <<>>)
    \o
    (IF "mcq_questions" \in processed_data.present
     THEN McqChunks(processed_data.mcq_questions)
     ELSE <<>>)
    \o
    (IF "creative_questions" \in processed_data.present
     THEN [i \in 1..Len(processed_data.creative_questions) |->
                CreativeChunk(processed_data.creative_questions[i])]
     ELSE <<>>)
    \o
    (IF "word_meanings" \in processed_data.present
     THEN WordMeaningChunks(processed_data.word_meanings)
     ELSE <<>>)
    \o
    (IF "characters_detailed" \in processed_data.present
     THEN CharacterChunks(processed_data.characters_detailed)
     ELSE <<>>)

----------------------------------------------------------------------------
(* Source documents *)

TxtKa == <<"U0995">>
TxtKaSpace == <<"U0995", " ">>
TxtKha == <<"U0996">>
TxtGolpo == <<"U0997","U09B2","U09CD","U09AA">>
TxtBlank == <<" ">>
TxtStory == <<"s","t","o","r","y">>
TxtRole == <<"r","o","l","e">>

SectionOne == [section |-> 1, title |-> TxtKa, content |-> TxtGolpo]
\* a section whose content is only whitespace
SectionBlank == [section |-> 2, title |-> TxtKha, content |-> TxtBlank]

QuestionOne ==
    [question_number |-> 1, question |-> TxtKa, options |-> <<<<"a", TxtKha>>>>,
     correct_answer |-> "a", has_explanation |-> TRUE, explanation |-> TxtKha]
\* a question without an explanation
QuestionTwo ==
    [question_number |-> 2, question |-> TxtKha, options |-> <<<<"a", TxtKa>>>>,
     correct_answer |-> "a", has_explanation |-> FALSE, explanation |-> <<>>]

CreativeOne ==
    [question_number |-> 1, context |-> TxtGolpo,
     questions |-> <<<<"a", TxtKa>>, <<"b", TxtKha>>>>,
     has_answers |-> TRUE, answers |-> <<<<"a", TxtKha>>, <<"b", TxtKa>>>>]
\* a creative question without answers
CreativeTwo ==
    [question_number |-> 2, context |-> TxtKa, questions |-> <<<<"a", TxtKa>>>>,
     has_answers |-> FALSE, answers |-> <<>>]

GlossaryOne == <<<<"sec1", <<<<TxtKa, TxtKha>>>>>>>>
GlossaryTwo == <<<<"sec1", <<<<TxtKa, TxtKha>>>>>>, <<"sec2", <<<<TxtKha, TxtKa>>>>>>>>
\* two entries of one section whose words differ only in trailing whitespace
GlossarySpaced ==
    <<<<"sec1", <<<<TxtKa, TxtKha>>, <<TxtKaSpace, TxtGolpo>>>>>>>>

CharacterOne == <<<<TxtRole, [is_str |-> TRUE, text |-> TxtKaSpace]>>>>
CharactersOne == <<<<"main", <<<<TxtKa, CharacterOne>>>>>>>>
CharactersTwo ==
    <<<<"main", <<<<TxtKa, CharacterOne>>>>>>,
      <<"minor", <<<<TxtKha, <<>>>>>>>>>>

SourceKeys ==
    {"story_text", "mcq_questions", "creative_questions", "word_meanings",
     "author_info", "characters_detailed"}

MakeDoc(present, story, mcq, creative, glossary, characters) ==
    [present |-> present,
     story_text |-> IF "story_text" \in present THEN story ELSE <<>>,
     mcq_questions |-> IF "mcq_questions" \in present THEN mcq ELSE <<>>,
     creative_questions |->
        IF "creative_questions" \in present THEN creative ELSE <<>>,
     word_meanings |-> IF "word_meanings" \in present THEN glossary ELSE <<>>,
     author_info |->
        IF "author_info" \in present THEN <<<<"name", TxtKaSpace>>>> ELSE <<>>,
     characters_detailed |->
        IF "characters_detailed" \in present THEN characters ELSE <<>>]

\* the source documents the structurer is run on
StructDocs ==
    {MakeDoc(present, story, mcq, creative, glossary, characters) :
        present \in SUBSET SourceKeys,
        story \in {<<SectionOne>>, <<SectionOne, SectionBlank>>},
        mcq \in {<<<<"board", <<QuestionOne>>>>>>,
                 <<<<"board", <<QuestionOne, QuestionTwo>>>>,
                   <<"practice", <<QuestionOne>>>>>>},
        creative \in {<<CreativeOne>>, <<CreativeOne, CreativeTwo>>},
        glossary \in {GlossaryOne, GlossaryTwo, GlossarySpaced},
        characters \in {CharactersOne, CharactersTwo}}

\* the number of logical items of a source document
SourceItemCount(data) ==
    (IF "story_text" \in data.present THEN Len(data.story_text) ELSE 0)
    + (IF "mcq_questions" \in data.present
       THEN GroupItemCount(data.mcq_questions)
       ELSE 0)
    + (IF "creative_questions" \in data.present
       THEN Len(data.creative_questions) ELSE 0)
    + (IF "word_meanings" \in data.present
       THEN GroupItemCount(data.word_meanings)
       ELSE 0)
    + (IF "characters_detailed" \in data.present
       THEN GroupItemCount(data.characters_detailed)
       ELSE 0)

\* the chunk type each source key is structured into
ChunkTypeOf ==
    [k \in SourceKeys \ {"author_info"} |->
        CASE k = "story_text" -> "story"
          [] k = "mcq_questions" -> "mcq"
          [] k = "creative_questions" -> "creative"
          [] k = "word_meanings" -> "word_meaning"
          [] k = "characters_detailed" -> "character"]

----------------------------------------------------------------------------
(* BengaliRAGSystem.detect_language *)

\* the mistaken variant in which a tie between the two counts yields Bengali
detect_language_tie_bn(text) ==
    LET bengali_chars == CountMatches(bengali_pattern, text)
        english_chars == CountMatches(english_pattern, text)
    IN  IF english_chars > bengali_chars THEN "en" ELSE "bn"

detect_language(text) ==
    LET bengali_chars == CountMatches(bengali_pattern, text)
        english_chars == CountMatches(english_pattern, text)
    IN  IF bengali_chars > english_chars THEN "bn"
        ELSE IF english_chars > 0 THEN "en"
        ELSE "bn"

----------------------------------------------------------------------------
(* BengaliRAGSystem.translate_query_if_needed *)

\* the lower-case letter of every upper-case letter
LowerOf ==
    [c \in Range(UpperCase) |->
        LowerCase[CHOOSE i \in 1..Len(UpperCase) : UpperCase[i] = c]]

\* str.lower() of one character
Lower(c) == IF c \in DOMAIN LowerOf THEN LowerOf[c] ELSE c

\* the regular expression class \w: letters, digits and the underscore
\* (combining marks are not word characters)
IsWordChar(c) ==
    \/ c \in english_pattern
    \/ c \in Digits
    \/ c = "_"
    \/ c \in BengaliLetters

\* the mistaken variant that compares the characters as written
WordMatchAt_same_case(eng, text, i) ==
    /\ i + Len(eng) - 1 <= Len(text)
    /\ \A j \in 1..Len(eng) : text[i + j - 1] = eng[j]
    /\ (i = 1 \/ ~IsWordChar(text[i - 1]))
    /\ (i + Len(eng) > Len(text) \/ ~IsWordChar(text[i + Len(eng)]))

\* whether the word eng matches text at position i under re.IGNORECASE with
\* a word boundary (\b) on both sides
WordMatchAt(eng, text, i) ==
    /\ i + Len(eng) - 1 <= Len(text)
    /\ \A j \in 1..Len(eng) : Lower(text[i + j - 1]) = Lower(eng[j])
    /\ (i = 1 \/ ~IsWordChar(text[i - 1]))
    /\ (i + Len(eng) > Len(text) \/ ~IsWordChar(text[i + Len(eng)]))

\* re.sub(r'\b' + eng + r'\b', ben, text, flags=re.IGNORECASE), scanning
\* from position i
RECURSIVE ReSubFrom(_, _, _, _)
ReSubFrom(eng, ben, text, i) ==
    IF i > Len(text) THEN <<>>
    ELSE IF WordMatchAt(eng, text, i)
         THEN ben \o ReSubFrom(eng, ben, text, i + Len(eng))
         ELSE <<text[i]>> \o ReSubFrom(eng, ben, text, i + 1)

\* translation_map, in the order of the dictionary literal
translation_map ==
    << <<<<"c","h","a","r","a","c","t","e","r">>,
         <<"U099A","U09B0","U09BF","U09A4","U09CD","U09B0">>>>,
       <<<<"s","t","o","r","y">>,
         <<"U0997","U09B2","U09CD","U09AA">>>>,
       <<<<"p","l","o","t">>,
         <<"U0995","U09BE","U09B9","U09BF","U09A8","U09C0">>>>,
       <<<<"a","u","t","h","o","r">>,
         <<"U09B2","U09C7","U0996","U0995">>>>,
       <<<<"m","e","a","n","i","n","g">>,
         <<"U0985","U09B0","U09CD","U09A5">>>>,
       <<<<"q","u","e","s","t","i","o","n">>,
         <<"U09AA","U09CD","U09B0","U09B6","U09CD","U09A8">>>>,
       <<<<"a","n","s","w","e","r">>,
         <<"U0989","U09A4","U09CD","U09A4","U09B0">>>>,
       <<<<"A","n","u","p","a","m">>,
         <<"U0985","U09A8","U09C1","U09AA","U09AE">>>>,
       <<<<"K","a","l","y","a","n","i">>,
         <<"U0995","U09B2","U09CD","U09AF","U09BE","U09A3","U09C0">>>>,
       <<<<"u","n","c","l","e">>,
         <<"U09AE","U09BE","U09AE","U09BE">>>>,
       <<<<"m","a","r","r","i","a","g","e">>,
         <<"U09AC","U09BF","U09AF","U09BC","U09C7">>>>,
       <<<<"w","e","d","d","i","n","g">>,
         <<"U09AC","U09BF","U09AF","U09BC","U09C7">>>>,
       <<<<"R","a","b","i","n","d","r","a","n","a","t","h">>,
         <<"U09B0","U09AC","U09C0","U09A8","U09CD","U09A6","U09CD","U09B0",
           "U09A8","U09BE","U09A5">>>>,
       <<<<"T","a","g","o","r","e">>,
         <<"U09A0","U09BE","U0995","U09C1","U09B0">>>> >>

\* the substitution loop over translation_map, from entry n on
RECURSIVE ApplyTranslations(_, _)
ApplyTranslations(text, n) ==
    IF n > Len(translation_map) THEN text
    ELSE ApplyTranslations(
            ReSubFrom(translation_map[n][1], translation_map[n][2], text, 1),
            n + 1)

translate_query_if_needed(query, target_language) ==
    IF detect_language(query) # target_language
    THEN ApplyTranslations(query, 1)
    ELSE query

\* characters the texts handed to detect_language are drawn from
LangAlphabet == {"a", "Z", "U0995", "U09BE", " "}

LangInit ==
    /\ langText \in SeqsUpTo(LangAlphabet, MaxLangLen)
    /\ langResult = "none"

LangIdle ==
    /\ langText = <<>>
    /\ langResult = "none"

\* one call detect_language(langText)
DetectLanguage ==
    /\ langResult = "none"
    /\ langResult' = detect_language(langText)
    /\ UNCHANGED langText

\* the caller supplies the next text
NextText ==
    /\ langResult # "none"
    /\ langText' \in SeqsUpTo(LangAlphabet, MaxLangLen)
    /\ langResult' = "none"

----------------------------------------------------------------------------
(* BengaliVectorStore *)

\* config.py MAX_CHUNKS_TO_RETRIEVE
MAX_CHUNKS_TO_RETRIEVE == 5

\* positions the embedding model places a text at, in tenths of the
\* distance unit; the distance of two texts is the gap between their positions
Points == {0, 9, 17}

Abs(x) == IF x < 0 THEN 0 - x ELSE x

Distance(a, b) == Abs(a - b)

\* the characters of a chunk type
TypeText(type) ==
    CASE type = "story" -> <<"s", "t", "o", "r", "y">>
      [] type = "mcq" -> <<"m", "c", "q">>
      [] type = "creative" -> <<"c", "r", "e", "a", "t", "i", "v", "e">>
      [] type = "word_meaning" ->
            <<"w", "o", "r", "d", "_", "m", "e", "a", "n", "i", "n", "g">>
      [] type = "character" ->
            <<"c", "h", "a", "r", "a", "c", "t", "e", "r">>

DecimalDigits == <<"0", "1", "2", "3", "4", "5", "6", "7", "8", "9">>

\* str(i) of a natural number
RECURSIVE Decimal(_)
Decimal(i) ==
    IF i < 10 THEN <<DecimalDigits[i + 1]>>
    ELSE Decimal(i \div 10) \o <<DecimalDigits[(i % 10) + 1]>>

\* a doc_id that leaves the ordinal out
DocIdTypeOnly(type, i) == TypeText(type) \o <<"_">>

\* doc_id = f"{chunk['type']}_{i}", i counting from 0
DocId(type, i) == TypeText(type) \o <<"_">> \o Decimal(i)

\* metadata = chunk['metadata'].copy() with type, doc_id and the fields of
\* the chunk's type added
StoreMetadata(chunk, doc_id) ==
    CASE chunk.type = "story" ->
            [section_number |-> chunk.metadata.section_number,
             content_type |-> chunk.metadata.content_type,
             type |-> chunk.type, doc_id |-> doc_id,
             title |-> chunk.title, section |-> chunk.section]
      [] chunk.type = "mcq" ->
            [category |-> chunk.metadata.category,
             question_number |-> chunk.metadata.question_number,
             content_type |-> chunk.metadata.content_type,
             type |-> chunk.type, doc_id |-> doc_id,
             question |-> chunk.question, answer |-> chunk.answer]
      [] chunk.type = "character" ->
            [category |-> chunk.metadata.category,
             content_type |-> chunk.metadata.content_type,
             type |-> chunk.type, doc_id |-> doc_id,
             character_name |-> chunk.character_name]
      [] chunk.type = "word_meaning" ->
            [section |-> chunk.metadata.section,
             content_type |-> chunk.metadata.content_type,
             type |-> chunk.type, doc_id |-> doc_id,
             word |-> chunk.word, meaning |-> chunk.meaning]
      [] OTHER ->
            [question_number |-> chunk.metadata.question_number,
             content_type |-> chunk.metadata.content_type,
             type |-> chunk.type, doc_id |-> doc_id]

\* the rows process_and_store_documents prepares for the chunks: texts,
\* metadatas and ids, one row per chunk
PrepareRows(chunk_list) ==
    [n \in 1..Len(chunk_list) |->
        [id |-> DocId(chunk_list[n].type, n - 1),
         document |-> chunk_list[n].content,
         metadata |-> StoreMetadata(chunk_list[n], DocId(chunk_list[n].type, n - 1))]]

HasId(coll, id) == \E i \in 1..Len(coll) : coll[i].id = id

\* collection.add(...): an empty batch is rejected with an error; a row
\* whose id the collection already holds is skipped and the stored row kept
AddRows(coll, rows) ==
    LET added == SelectSeq([n \in 1..Len(rows) |-> n],
                           LAMBDA n : /\ ~HasId(coll, rows[n].id)
                                      /\ \A m \in 1..(n - 1) :
                                            rows[m].id # rows[n].id)
    IN  coll \o [k \in 1..Len(added) |-> rows[added[k]]]

ChromaAdd(coll, rows) ==
    IF rows = <<>>
    THEN [raised |-> TRUE, collection |-> coll]
    ELSE [raised |-> FALSE, collection |-> AddRows(coll, rows)]

\* whether a stored metadata satisfies a where clause: equality on every
\* key of the clause
MatchesWhere(metadata, where) ==
    \A i \in 1..Len(where) :
        /\ where[i][1] \in DOMAIN metadata
        /\ metadata[where[i][1]] = where[i][2]

\* the positions of cand ordered by ascending distance from point q, ties
\* in insertion order
RECURSIVE NearestFirst(_, _, _, _)
NearestFirst(coll, emb, q, cand) ==
    IF cand = {} THEN <<>>
    ELSE LET best == CHOOSE i \in cand : \A j \in cand :
                        \/ Distance(q, emb[coll[i].document])
                                < Distance(q, emb[coll[j].document])
                        \/ /\ Distance(q, emb[coll[i].document])
                                = Distance(q, emb[coll[j].document])
                           /\ i <= j
         IN  <<best>> \o NearestFirst(coll, emb, q, cand \ {best})

\* the mistaken variant in which asking for more results than there are
\* matching rows is an error
ChromaQueryNotEnough(coll, emb, q, n_results, where) ==
    LET cand == {i \in 1..Len(coll) : MatchesWhere(coll[i].metadata, where)}
        order == NearestFirst(coll, emb, q, cand)
    IN  IF n_results <= 0 \/ n_results > Len(order)
        THEN [raised |-> TRUE, rows |-> <<>>]
        ELSE [raised |-> FALSE, rows |-> SubSeq(order, 1, n_results)]

\* collection.query(query_embeddings=[q], n_results=n_results, where=where):
\* n_results <= 0 is rejected with an error; otherwise the at most
\* n_results nearest rows that satisfy where, nearest first
ChromaQuery(coll, emb, q, n_results, where) ==
    IF n_results <= 0
    THEN [raised |-> TRUE, rows |-> <<>>]
    ELSE LET cand == {i \in 1..Len(coll) : MatchesWhere(coll[i].metadata, where)}
             order == NearestFirst(coll, emb, q, cand)
         IN  [raised |-> FALSE,
              rows |-> SubSeq(order, 1, Min(n_results, Len(order)))]

\* the value of 'distance' in a result when the query results of the index
\* carry no distances (Python None); every distance is >= 0
None == 0 - 1

\* the mistaken variant that asks the collection for one result too many
similarity_search_one_more(coll, emb, query, k, filter_metadata) ==
    LET results == ChromaQuery(coll, emb, emb[query], k + 1, filter_metadata)
    IN  [raised |-> results.raised,
         results |->
            [n \in 1..Len(results.rows) |->
                [content |-> coll[results.rows[n]].document,
                 metadata |-> coll[results.rows[n]].metadata,
                 distance |-> IF distances
                              THEN Distance(emb[query],
                                            emb[coll[results.rows[n]].document])
                              ELSE None,
                 id |-> coll[results.rows[n]].id]]]

\* BengaliVectorStore.similarity_search; a missing or empty filter_metadata
\* gives no where clause. The value is [raised, results].
similarity_search(coll, emb, query, k, filter_metadata) ==
    LET results == ChromaQuery(coll, emb, emb[query], k, filter_metadata)
    IN  [raised |-> results.raised,
         results |->
            [n \in 1..Len(results.rows) |->
                [content |-> coll[results.rows[n]].document,
                 metadata |-> coll[results.rows[n]].metadata,
                 distance |-> IF distances
                              THEN Distance(emb[query],
                                            emb[coll[results.rows[n]].document])
                              ELSE None,
                 id |-> coll[results.rows[n]].id]]]

\* BengaliVectorStore.search_by_type
search_by_type(coll, emb, query, content_type, k) ==
    similarity_search(coll, emb, query, k, <<<<"type", content_type>>>>)

\* BengaliVectorStore.get_word_meaning
get_word_meaning(coll, emb, word) ==
    similarity_search(coll, emb, word, 3, <<<<"type", "word_meaning">>>>)

\* a character lookup that puts the story results first
get_character_info_story_first(coll, emb, character_name) ==
    LET results == similarity_search(coll, emb, character_name, 5,
                                     <<<<"type", "character">>>>)
        story_results == search_by_type(coll, emb, character_name, "story", 3)
    IN  [raised |-> results.raised \/ story_results.raised,
         results |-> IF results.raised \/ story_results.raised THEN <<>>
                     ELSE story_results.results \o results.results]

\* BengaliVectorStore.get_character_info: results + story_results
get_character_info(coll, emb, character_name) ==
    LET results == similarity_search(coll, emb, character_name, 5,
                                     <<<<"type", "character">>>>)
        story_results == search_by_type(coll, emb, character_name, "story", 3)
    IN  [raised |-> results.raised \/ story_results.raised,
         results |-> IF results.raised \/ story_results.raised THEN <<>>
                     ELSE results.results \o story_results.results]

\* BengaliVectorStore.process_and_store_documents on the parsed file; the
\* value is [raised, collection, count]
process_and_store_documents(coll, json_data) ==
    LET processed_data == preprocess_json_content(json_data)
        chunk_list == create_searchable_chunks(processed_data)
        rows == PrepareRows(chunk_list)
        added == ChromaAdd(coll, rows)
    IN  [raised |-> added.raised,
         collection |-> added.collection,
         count |-> Len(rows)]

----------------------------------------------------------------------------
(* BengaliRAGSystem.retrieve_relevant_chunks *)

\* the quality threshold 0.8 of the fallback test, in tenths
FallbackThreshold == 8

\* the record of one similarity_search call made by a handler
SearchRecord(query, k, filter_metadata, found) ==
    [query |-> query, k |-> k, where |-> filter_metadata,
     raised |-> found.raised, results |-> found.results]

\* the mistaken variant that always searches a second time
retrieve_relevant_chunks_always_retry(coll, emb, query, k) ==
    LET cleaned_query == clean_text(query)
        translated_query == translate_query_if_needed(cleaned_query, "bn")
        first == similarity_search(coll, emb, translated_query, k, <<>>)
        second == similarity_search(coll, emb, cleaned_query, k, <<>>)
    IN  IF first.raised
        THEN [raised |-> TRUE, results |-> <<>>,
              searches |-> <<SearchRecord(translated_query, k, <<>>, first)>>]
        ELSE [raised |-> second.raised, results |-> second.results,
              searches |-> <<SearchRecord(translated_query, k, <<>>, first),
                             SearchRecord(cleaned_query, k, <<>>, second)>>]

\* the mistaken variant that falls back only when the primary search is empty
retrieve_relevant_chunks_empty_only(coll, emb, query, k) ==
    LET cleaned_query == clean_text(query)
        translated_query == translate_query_if_needed(cleaned_query, "bn")
        first == similarity_search(coll, emb, translated_query, k, <<>>)
        second == similarity_search(coll, emb, cleaned_query, k, <<>>)
    IN  IF first.raised
        THEN [raised |-> TRUE, results |-> <<>>,
              searches |-> <<SearchRecord(translated_query, k, <<>>, first)>>]
        ELSE IF first.results = <<>>
        THEN [raised |-> second.raised, results |-> second.results,
              searches |-> <<SearchRecord(translated_query, k, <<>>, first),
                             SearchRecord(cleaned_query, k, <<>>, second)>>]
        ELSE [raised |-> FALSE, results |-> first.results,
              searches |-> <<SearchRecord(translated_query, k, <<>>, first)>>]

\* the value is [raised, results, searches], searches being the index
\* searches issued, in order; an error of a search propagates, and so does
\* the TypeError of comparing a None distance with 0.8
retrieve_relevant_chunks(coll, emb, query, k) ==
    LET cleaned_query == clean_text(query)
        translated_query == translate_query_if_needed(cleaned_query, "bn")
        first == similarity_search(coll, emb, translated_query, k, <<>>)
        second == similarity_search(coll, emb, cleaned_query, k, <<>>)
    IN  IF first.raised
        THEN [raised |-> TRUE, results |-> <<>>,
              searches |-> <<SearchRecord(translated_query, k, <<>>, first)>>]
        ELSE IF first.results # <<>> /\ first.results[1].distance = None
        THEN [raised |-> TRUE, results |-> <<>>,
              searches |-> <<SearchRecord(translated_query, k, <<>>, first)>>]
        ELSE IF first.results = <<>>
                \/ first.results[1].distance > FallbackThreshold
        THEN [raised |-> second.raised, results |-> second.results,
              searches |-> <<SearchRecord(translated_query, k, <<>>, first),
                             SearchRecord(cleaned_query, k, <<>>, second)>>]
        ELSE [raised |-> FALSE, results |-> first.results,
              searches |-> <<SearchRecord(translated_query, k, <<>>, first)>>]

----------------------------------------------------------------------------
(* The structurer run on a source document *)

StructInit ==
    /\ structDoc \in StructDocs
    /\ structChunks = <<>>
    /\ structured = FALSE
    /\ structRows = <<>>

StructIdle ==
    /\ structDoc = MakeDoc({}, <<>>, <<>>, <<>>, <<>>, <<>>)
    /\ structChunks = <<>>
    /\ structured = FALSE
    /\ structRows = <<>>

\* preprocess_json_content followed by create_searchable_chunks
Structure ==
    /\ ~structured
    /\ structChunks' = create_searchable_chunks(preprocess_json_content(structDoc))
    /\ structured' = TRUE
    /\ UNCHANGED <<structDoc, structRows>>

\* another source document is taken up
NextDoc ==
    /\ structured
    /\ structDoc' \in StructDocs
    /\ structChunks' = <<>>
    /\ structured' = FALSE
    /\ structRows' = <<>>

\* process_and_store_documents on the document: it is structured, an id, a
\* text and a metadata are prepared per chunk, the rows are handed to
\* collection.add and their number is returned; structChunks and structRows
\* keep the chunks and rows of the call.  It may be run again on the same
\* document, and the collection keeps what earlier builds stored.
PrepareDocuments ==
    LET chunks == create_searchable_chunks(preprocess_json_content(structDoc))
        built == process_and_store_documents(collection, structDoc)
    IN  /\ call.op = "idle"
        /\ structChunks' = chunks
        /\ structRows' = PrepareRows(chunks)
        /\ structured' = TRUE
        /\ collection' = built.collection
        /\ call' = [op |-> "build", raised |-> built.raised, count |-> built.count]
        /\ UNCHANGED <<structDoc, source, embed>>

----------------------------------------------------------------------------
(* The vector store and the retrieval calls of one installation *)

\* story sections (one of them blank) and a one-entry glossary
DocStoryGlossary ==
    MakeDoc({"story_text", "word_meanings"}, <<SectionOne, SectionBlank>>,
            <<>>, <<>>, GlossaryOne, <<>>)
\* a single story section, which is blank
DocBlankStory == MakeDoc({"story_text"}, <<SectionBlank>>, <<>>, <<>>, <<>>, <<>>)

\* the contents organized_content.json takes
IndexDocs == {DocStoryGlossary, DocBlankStory}

\* the query texts handed to similarity_search and get_word_meaning
SearchTexts == {TxtStory, TxtGolpo, <<>>}

\* the query texts handed to retrieve_relevant_chunks
RawQueries == SearchTexts \cup {<<" ">> \o TxtStory \o <<" ", " ">>}

\* the values of k
Ks == {0, 1, 2, MAX_CHUNKS_TO_RETRIEVE}

\* the metadata filters
Filters == {<<>>, <<<<"type", "story">>>>, <<<<"type", "word_meaning">>>>}

\* every text the embedding model is asked to embed
EmbedTexts ==
    SearchTexts
    \cup {clean_text(q) : q \in RawQueries}
    \cup {translate_query_if_needed(clean_text(q), "bn") : q \in RawQueries}
    \cup UNION {LET rows == PrepareRows(create_searchable_chunks(
                                            preprocess_json_content(d)))
                IN  {rows[i].document : i \in 1..Len(rows)} :
                d \in IndexDocs}

IdleCall == [op |-> "idle"]

\* a fresh installation: an empty persistent collection
IndexInit ==
    /\ source \in IndexDocs
    /\ embed \in [EmbedTexts -> Points]
    /\ collection = <<>>
    /\ call = IdleCall

IndexIdle ==
    /\ source = DocBlankStory
    /\ embed = [t \in EmbedTexts |-> 0]
    /\ collection = <<>>
    /\ call = IdleCall

\* organized_content.json is replaced
EditSource ==
    /\ call.op = "idle"
    /\ source' \in IndexDocs \ {source}
    /\ UNCHANGED <<embed, collection, call>>

\* BengaliRAGSystem.initialize_knowledge_base on the knowledge base file,
\* as BengaliRAGCLI.initialize runs it at every start
InitializeKnowledgeBase ==
    LET built == process_and_store_documents(collection, source)
    IN  /\ call.op = "idle"
        /\ collection' = built.collection
        /\ call' = [op |-> "build", raised |-> built.raised, count |-> built.count]
        /\ UNCHANGED <<source, embed>>

\* a direct call of BengaliVectorStore.similarity_search
SimilaritySearch ==
    \E query \in SearchTexts, k \in Ks, filter_metadata \in Filters :
        LET found == similarity_search(collection, embed, query, k, filter_metadata)
        IN  /\ call.op = "idle"
            /\ call' = [op |-> "search", query |-> query, k |-> k,
                        where |-> filter_metadata,
                        raised |-> found.raised, result |-> found.results]
            /\ UNCHANGED <<source, embed, collection>>

\* the content types handed to search_by_type
ContentTypes == {"story", "word_meaning", "character"}

\* a call of BengaliVectorStore.search_by_type
SearchByType ==
    \E query \in SearchTexts, content_type \in ContentTypes, k \in Ks :
        LET found == search_by_type(collection, embed, query, content_type, k)
        IN  /\ call.op = "idle"
            /\ call' = [op |-> "search_by_type", query |-> query, k |-> k,
                        where |-> <<<<"type", content_type>>>>,
                        raised |-> found.raised, result |-> found.results]
            /\ UNCHANGED <<source, embed, collection>>

\* a call of BengaliRAGSystem.retrieve_relevant_chunks
RetrieveRelevantChunks ==
    \E query \in RawQueries, k \in Ks :
        LET got == retrieve_relevant_chunks(collection, embed, query, k)
        IN  /\ call.op = "idle"
            /\ call' = [op |-> "retrieve", query |-> query, k |-> k,
                        raised |-> got.raised, result |-> got.results,
                        searches |-> got.searches]
            /\ UNCHANGED <<source, embed, collection>>

\* a call of BengaliVectorStore.get_word_meaning
GetWordMeaning ==
    \E word \in SearchTexts :
        LET found == get_word_meaning(collection, embed, word)
        IN  /\ call.op = "idle"
            /\ call' = [op |-> "word_meaning", query |-> word,
                        raised |-> found.raised, result |-> found.results]
            /\ UNCHANGED <<source, embed, collection>>

\* the largest cast and the longest story of the knowledge bases of the
\* character lookups
MaxCast == 6
MaxStory == 4

\* a text of n letters
LetterRun(letter, n) == [j \in 1..n |-> letter]

\* a knowledge base of story sections and characters of one category
DocCast(cast, sections) ==
    MakeDoc({"story_text", "characters_detailed"},
            [i \in 1..sections |->
                [section |-> i, title |-> TxtKha,
                 content |-> LetterRun("U0997", i)]],
            <<>>, <<>>, <<>>,
            <<<<"main", [i \in 1..cast |->
                            <<LetterRun("U0995", i), CharacterOne>>]>>>>)

CastDocs == {DocCast(cast, sections) : cast \in 0..MaxCast, sections \in 0..MaxStory}

\* the names looked up
CastNames == {TxtKa, TxtGolpo}

\* the texts the embedding model is asked to embed during character lookups
CastTexts ==
    CastNames
    \cup UNION {LET rows == PrepareRows(create_searchable_chunks(
                                            preprocess_json_content(d)))
                IN  {rows[i].document : i \in 1..Len(rows)} :
                d \in CastDocs}

\* embedding models that place a text by its length
CastEmbeds ==
    {[t \in CastTexts |->
        CASE (Len(t) * step + shift) % 3 = 0 -> 0
          [] (Len(t) * step + shift) % 3 = 1 -> 9
          [] OTHER -> 17] :
     step \in 0..2, shift \in 0..2}

\* a fresh installation over one of the knowledge bases with a cast
CastInit ==
    /\ source \in CastDocs
    /\ embed \in CastEmbeds
    /\ collection = <<>>
    /\ call = IdleCall

\* a call of BengaliVectorStore.get_character_info
GetCharacterInfo ==
    \E character_name \in CastNames :
        LET found == get_character_info(collection, embed, character_name)
        IN  /\ call.op = "idle"
            /\ call' = [op |-> "character", query |-> character_name,
                        raised |-> found.raised, result |-> found.results]
            /\ UNCHANGED <<source, embed, collection>>

\* the caller takes the outcome of the call
Return ==
    /\ call.op # "idle"
    /\ call' = IdleCall
    /\ UNCHANGED <<source, embed, collection>>

----------------------------------------------------------------------------
(* ConversationMemory *)

\* config.py SHORT_TERM_MEMORY_SIZE, the default capacity
SHORT_TERM_MEMORY_SIZE == 10

\* clock ticks per second: session ids have a resolution of one second,
\* turn timestamps the resolution of the clock
TicksPerSecond == 2

\* datetime.now().strftime("%Y%m%d_%H%M%S")
SessionStamp(t) == t \div TicksPerSecond

\* the arguments add_conversation is called with:
\* <<user_query, assistant_response, retrieved_chunks, language>>
MemTurnArgs ==
    {<<"q1", "r1", <<>>, "bn">>,
     <<"q2", "r2",
       <<[content |-> "c1", metadata |-> [type |-> "story"],
          distance |-> 3, id |-> DocId("story", 0)]>>,
       "en">>}

\* the mistaken variant in which a full buffer rejects the new element
DequeAppendKeepOldest(d, maxlen, x) ==
    IF Len(d) >= maxlen THEN d ELSE Append(d, x)

\* collections.deque(maxlen=maxlen).append(x)
DequeAppend(d, maxlen, x) ==
    IF maxlen = 0 THEN d
    ELSE IF Len(d) = maxlen THEN Append(Tail(d), x)
    ELSE Append(d, x)

\* ConversationMemory.__init__
MemInit ==
    /\ max_size \in (0..MaxCapacity) \cup {SHORT_TERM_MEMORY_SIZE}
    /\ conversations = <<>>
    /\ now = 0
    /\ session_id = SessionStamp(0)
    /\ appended = <<>>

MemIdle ==
    /\ max_size = SHORT_TERM_MEMORY_SIZE
    /\ conversations = <<>>
    /\ now = 0
    /\ session_id = SessionStamp(0)
    /\ appended = <<>>

\* time passes
Tick ==
    /\ now < MaxTime
    /\ now' = now + 1
    /\ UNCHANGED <<max_size, conversations, session_id, appended>>

\* ConversationMemory.add_conversation; appended records the turns added
\* since the last clear
add_conversation(user_query, assistant_response, retrieved_chunks, language) ==
    LET conversation ==
            [timestamp |-> now,
             user_query |-> user_query,
             assistant_response |-> assistant_response,
             language |-> language,
             retrieved_chunks |-> retrieved_chunks,
             session_id |-> session_id]
    IN  /\ Len(appended) < MaxAppends
        /\ conversations' = DequeAppend(conversations, max_size, conversation)
        /\ appended' = Append(appended, conversation)
        /\ UNCHANGED <<max_size, session_id, now>>

AddConversation ==
    \E a \in MemTurnArgs : add_conversation(a[1], a[2], a[3], a[4])

\* ConversationMemory.clear_memory
clear_memory ==
    /\ conversations' = <<>>
    /\ session_id' = SessionStamp(now)
    /\ appended' = <<>>
    /\ UNCHANGED <<max_size, now>>

----------------------------------------------------------------------------
(* ConversationMemory.save_session and load_session *)

\* JSON values as json.dump writes and json.load reads them
JsonString(x) == [json |-> "string", value |-> x]
JsonNumber(x) == [json |-> "number", value |-> x]
JsonArray(items) == [json |-> "array", value |-> items]
JsonObject(members) == [json |-> "object", value |-> members]

\* the value of a member of a JSON object
Member(object, key) == DictGet(object.value, key)

\* json.dump of a retrieved chunk of a turn
DumpChunk(chunk) ==
    JsonObject(<< <<"content", JsonString(chunk.content)>>,
                  <<"metadata",
                    JsonObject(<< <<"type", JsonString(chunk.metadata.type)>> >>)>>,
                  <<"distance", JsonNumber(chunk.distance)>>,
                  <<"id", JsonString(chunk.id)>> >>)

\* json.load of a retrieved chunk
LoadChunk(object) ==
    [content |-> Member(object, "content").value,
     metadata |-> [type |-> Member(Member(object, "metadata"), "type").value],
     distance |-> Member(object, "distance").value,
     id |-> Member(object, "id").value]

\* the mistaken variant that writes a turn without its retrieved chunks
DumpTurnNoChunks(conversation) ==
    JsonObject(<< <<"timestamp", JsonString(conversation.timestamp)>>,
                  <<"user_query", JsonString(conversation.user_query)>>,
                  <<"assistant_response",
                    JsonString(conversation.assistant_response)>>,
                  <<"language", JsonString(conversation.language)>>,
                  <<"retrieved_chunks", JsonArray(<<>>)>>,
                  <<"session_id", JsonString(conversation.session_id)>> >>)

\* json.dump of a turn
DumpTurn(conversation) ==
    JsonObject(<< <<"timestamp", JsonString(conversation.timestamp)>>,
                  <<"user_query", JsonString(conversation.user_query)>>,
                  <<"assistant_response",
                    JsonString(conversation.assistant_response)>>,
                  <<"language", JsonString(conversation.language)>>,
                  <<"retrieved_chunks",
                    JsonArray([i \in 1..Len(conversation.retrieved_chunks) |->
                                DumpChunk(conversation.retrieved_chunks[i])])>>,
                  <<"session_id", JsonString(conversation.session_id)>> >>)

\* json.load of a turn
LoadTurn(object) ==
    [timestamp |-> Member(object, "timestamp").value,
     user_query |-> Member(object, "user_query").value,
     assistant_response |-> Member(object, "assistant_response").value,
     language |-> Member(object, "language").value,
     retrieved_chunks |->
        [i \in 1..Len(Member(object, "retrieved_chunks").value) |->
            LoadChunk(Member(object, "retrieved_chunks").value[i])],
     session_id |-> Member(object, "session_id").value]

\* the default file of a session: f"conversation_session_{session_id}.json"
SessionPath(id) == <<"conversation_session", id>>

\* the files load_session is asked to read
SessionPaths == {SessionPath(SessionStamp(t)) : t \in 0..MaxTime}

\* session_data of save_session, as written to the file
SessionData(id, convs, t) ==
    JsonObject(<< <<"session_id", JsonString(id)>>,
                  <<"conversations",
                    JsonArray([i \in 1..Len(convs) |-> DumpTurn(convs[i])])>>,
                  <<"saved_at", JsonString(t)>> >>)

\* deque(items, maxlen=maxlen)
DequeFrom(items, maxlen) == LastN(items, maxlen)

\* a ConversationMemory of a small capacity, constructed at time 0 and
\* used at a later time
SessionInit ==
    /\ max_size = MaxCapacity
    /\ conversations = <<>>
    /\ now = MaxTime
    /\ session_id = SessionStamp(0)
    /\ appended = <<>>
    /\ session_files = <<>>
    /\ call = IdleCall

\* the turn added to a memory that is saved and loaded:
\* <<user_query, assistant_response, retrieved_chunks, language>>
SessionTurnArgs == {a \in MemTurnArgs : a[3] # <<>>}

\* a call of ConversationMemory.add_conversation on that memory
AddSessionTurn ==
    \E a \in SessionTurnArgs :
        /\ call.op = "idle"
        /\ add_conversation(a[1], a[2], a[3], a[4])
        /\ UNCHANGED <<session_files, varsIndex>>

\* a call of ConversationMemory.clear_memory on that memory
ClearSession ==
    /\ call.op = "idle"
    /\ clear_memory
    /\ UNCHANGED <<session_files, varsIndex>>

\* ConversationMemory.save_session() with the default file path; a file
\* entry is [content, at_save], at_save recording the session id and the
\* turns of the memory at the time of the save
SaveSession ==
    LET filepath == SessionPath(session_id)
    IN  /\ call.op = "idle"
        /\ session_files' =
                DictSet(session_files, filepath,
                        [content |-> SessionData(session_id, conversations, now),
                         at_save |-> [session_id |-> session_id,
                                      conversations |-> conversations]])
        /\ call' = [op |-> "save_session", path |-> filepath, raised |-> FALSE]
        /\ UNCHANGED <<varsMem, source, embed, collection>>

\* ConversationMemory.load_session(filepath); open raises when there is no
\* such file
LoadSession ==
    \E filepath \in SessionPaths :
        /\ call.op = "idle"
        /\ IF DictHas(session_files, filepath)
           THEN LET session_data == DictGet(session_files, filepath).content
                    loaded == Member(session_data, "conversations").value
                IN  /\ session_id' = Member(session_data, "session_id").value
                    /\ conversations' =
                            DequeFrom([i \in 1..Len(loaded) |-> LoadTurn(loaded[i])],
                                      max_size)
                    /\ call' = [op |-> "load_session", path |-> filepath,
                                raised |-> FALSE]
           ELSE /\ call' = [op |-> "load_session", path |-> filepath,
                            raised |-> TRUE]
                /\ UNCHANGED <<session_id, conversations>>
        /\ UNCHANGED <<max_size, now, appended, session_files,
                       source, embed, collection>>

----------------------------------------------------------------------------
(* DocumentMemory: the usage statistics *)

\* str.lower()
LowerText(text) == [i \in 1..Len(text) |-> Lower(text[i])]

\* d[k] = d.get(k, 0) + 1
DictIncrement(d, k) ==
    DictSet(d, k, (IF DictHas(d, k) THEN DictGet(d, k) ELSE 0) + 1)

\* doc.get('metadata', {}).get('type', 'unknown')
DocTypeOf(doc) ==
    IF "type" \in DOMAIN doc.metadata THEN doc.metadata.type ELSE "unknown"

\* counts[type] incremented for every retrieved chunk, in order
RECURSIVE CountTypes(_, _)
CountTypes(counts, docs) ==
    IF docs = <<>> THEN counts
    ELSE CountTypes(DictIncrement(counts, DocTypeOf(Head(docs))), Tail(docs))

\* max(d.items(), key=lambda x: x[1])[0]: the first key with the largest value
FirstMax(d) ==
    d[CHOOSE i \in 1..Len(d) :
        /\ \A j \in 1..Len(d) : d[j][2] <= d[i][2]
        /\ \A j \in 1..(i - 1) : d[j][2] < d[i][2]][1]

\* DocumentMemory.__init__
StatsInit ==
    /\ query_patterns = <<>>
    /\ document_access_frequency = <<>>
    /\ user_preferences = <<>>

\* DocumentMemory.record_query_pattern at clock value t
record_query_pattern(patterns, query, language, retrieved_docs, t) ==
    LET query_key == Strip(LowerText(query))
        pattern == IF DictHas(patterns, query_key)
                   THEN DictGet(patterns, query_key)
                   ELSE [count |-> 0, languages |-> <<>>,
                         common_doc_types |-> <<>>,
                         first_seen |-> t, last_seen |-> t]
    IN  DictSet(patterns, query_key,
                [count |-> pattern.count + 1,
                 languages |-> DictIncrement(pattern.languages, language),
                 common_doc_types |->
                    CountTypes(pattern.common_doc_types, retrieved_docs),
                 first_seen |-> pattern.first_seen,
                 last_seen |-> t])

\* a record_document_access that notes the access without counting it
record_document_access_once(frequency, doc_id, doc_type, t) ==
    LET entry == IF DictHas(frequency, doc_id)
                 THEN DictGet(frequency, doc_id)
                 ELSE [count |-> 0, type |-> doc_type,
                       first_accessed |-> t, last_accessed |-> t]
    IN  DictSet(frequency, doc_id,
                [count |-> 1, type |-> entry.type,
                 first_accessed |-> entry.first_accessed,
                 last_accessed |-> t])

\* DocumentMemory.record_document_access at clock value t
record_document_access(frequency, doc_id, doc_type, t) ==
    LET entry == IF DictHas(frequency, doc_id)
                 THEN DictGet(frequency, doc_id)
                 ELSE [count |-> 0, type |-> doc_type,
                       first_accessed |-> t, last_accessed |-> t]
    IN  DictSet(frequency, doc_id,
                [count |-> entry.count + 1, type |-> entry.type,
                 first_accessed |-> entry.first_accessed,
                 last_accessed |-> t])

\* the loop of add_interaction over the retrieved chunks
RECURSIVE RecordAccesses(_, _, _)
RecordAccesses(frequency, chunks, t) ==
    IF chunks = <<>> THEN frequency
    ELSE RecordAccesses(
            record_document_access(frequency, Head(chunks).id,
                                   DocTypeOf(Head(chunks)), t),
            Tail(chunks), t)

\* an update_user_preferences that keeps only the latest language and topic
update_user_preferences_latest_only(preferences, language, topic_type) ==
    DictSet(DictSet(preferences, "language_preference",
                    DictIncrement(<<>>, language)),
            "topic_preference", DictIncrement(<<>>, topic_type))

\* DocumentMemory.update_user_preferences
update_user_preferences(preferences, language, topic_type) ==
    LET lang_pref == IF DictHas(preferences, "language_preference")
                     THEN DictGet(preferences, "language_preference")
                     ELSE <<>>
        topic_pref == IF DictHas(preferences, "topic_preference")
                      THEN DictGet(preferences, "topic_preference")
                      ELSE <<>>
    IN  DictSet(DictSet(preferences, "language_preference",
                        DictIncrement(lang_pref, language)),
                "topic_preference", DictIncrement(topic_pref, topic_type))

\* DocumentMemory.get_preferred_language
get_preferred_language(preferences) ==
    IF ~DictHas(preferences, "language_preference")
            \/ DictGet(preferences, "language_preference") = <<>>
    THEN "bn"
    ELSE FirstMax(DictGet(preferences, "language_preference"))

\* Python's "part in text" for strings
IsSubstring(part, text) ==
    \E i \in 0..(Len(text) - Len(part)) :
        \A j \in 1..Len(part) : text[i + j] = part[j]

\* suggestions in the order of the dict, without the sort
get_query_suggestions_unsorted(patterns, partial_query, limit) ==
    LET partial_lower == LowerText(partial_query)
        suggestions ==
            SelectSeq([i \in 1..Len(patterns) |-> patterns[i][1]],
                      LAMBDA query : /\ IsSubstring(partial_lower, query)
                                     /\ DictGet(patterns, query).count > 1)
    IN  SubSeq(suggestions, 1, Min(limit, Len(suggestions)))

\* DocumentMemory.get_query_suggestions for limit >= 0: list.sort with
\* reverse=True is stable, so queries of equal count keep the order of the
\* dict
get_query_suggestions(patterns, partial_query, limit) ==
    LET partial_lower == LowerText(partial_query)
        suggestions ==
            SelectSeq([i \in 1..Len(patterns) |-> patterns[i][1]],
                      LAMBDA query : /\ IsSubstring(partial_lower, query)
                                     /\ DictGet(patterns, query).count > 1)
        count(i) == DictGet(patterns, suggestions[i]).count
        place(i) ==
            1 + Cardinality({j \in 1..Len(suggestions) :
                                \/ count(j) > count(i)
                                \/ count(j) = count(i) /\ j < i})
        sorted == [k \in 1..Len(suggestions) |->
                    suggestions[CHOOSE i \in 1..Len(suggestions) : place(i) = k]]
    IN  SubSeq(sorted, 1, Min(limit, Len(sorted)))

----------------------------------------------------------------------------
(* DocumentMemory.save_memory_data and load_memory_data *)

\* a Python object held by a pickle file: a dict (py = "dict", value the
\* dict) or None (py = "none")
PyDict(d) == [py |-> "dict", value |-> d]
PyNone == [py |-> "none", value |-> None]

\* a statistics file: absent, not readable (open raises), not a pickle
\* (pickle.load raises), or the pickle of an object; the object is a dict
\* with the given items or, with is_dict false, a list
NoFile == [kind |-> "absent"]
UnreadableFile == [kind |-> "unreadable"]
CorruptFile == [kind |-> "corrupt"]
PickleFile(is_dict, items) ==
    [kind |-> "pickle", is_dict |-> is_dict, items |-> items]

\* memory_data of save_memory_data, as pickle.dump writes it
save_memory_data(patterns, frequency, preferences, t) ==
    PickleFile(TRUE,
               << <<"query_patterns", PyDict(patterns)>>,
                  <<"document_access_frequency", PyDict(frequency)>>,
                  <<"user_preferences", PyDict(preferences)>>,
                  <<"saved_at", t>> >>)

\* memory_data.get(key, {})
GetOrEmpty(items, key) ==
    IF DictHas(items, key) THEN DictGet(items, key) ELSE PyDict(<<>>)

\* DocumentMemory.load_memory_data on a memory holding the given maps. The
\* value is [raised, outcome, query_patterns, document_access_frequency,
\* user_preferences, sized]: outcome is "loaded", "not_found" (the
\* FileNotFoundError branch) or "error" (the Exception branch), and sized
\* tells whether query_patterns is left holding an object with a length
load_memory_data(file, patterns, frequency, preferences) ==
    LET unchanged(outcome) ==
            [raised |-> FALSE, outcome |-> outcome, sized |-> TRUE,
             query_patterns |-> patterns,
             document_access_frequency |-> frequency,
             user_preferences |-> preferences]
    IN  IF file.kind = "absent" THEN unchanged("not_found")
        ELSE IF file.kind \in {"unreadable", "corrupt"} THEN unchanged("error")
        ELSE IF ~file.is_dict THEN unchanged("error")
        ELSE LET loaded == GetOrEmpty(file.items, "query_patterns")
             IN  [raised |-> FALSE,
                  outcome |-> IF loaded.py = "none" THEN "error" ELSE "loaded",
                  sized |-> loaded.py # "none",
                  query_patterns |-> loaded.value,
                  document_access_frequency |->
                     GetOrEmpty(file.items, "document_access_frequency").value,
                  user_preferences |->
                     GetOrEmpty(file.items, "user_preferences").value]

----------------------------------------------------------------------------
(* MemoryManager *)

\* MemoryManager._infer_topic_type
infer_topic_type(retrieved_chunks) ==
    LET type_counts == CountTypes(<<>>, retrieved_chunks)
    IN  IF type_counts # <<>> THEN FirstMax(type_counts) ELSE "unknown"

\* MemoryManager.add_interaction
add_interaction(user_query, assistant_response, retrieved_chunks, language) ==
    /\ add_conversation(user_query, assistant_response, retrieved_chunks, language)
    /\ query_patterns' = record_query_pattern(query_patterns, user_query,
                                              language, retrieved_chunks, now)
    /\ document_access_frequency'
            = RecordAccesses(document_access_frequency, retrieved_chunks, now)
    /\ user_preferences' = update_user_preferences(
                                user_preferences, language,
                                infer_topic_type(retrieved_chunks))

\* the value of get_recent_conversations(n) when the test
\* "n <= len(self.conversations)" found the length size and list() then
\* copied the turns listed: listed[-n:] after a true test, listed otherwise
RecentOf(listed, n, size) ==
    IF n <= size
    THEN IF n > 0 THEN SubSeq(listed, Len(listed) - Min(n, Len(listed)) + 1,
                              Len(listed))
         ELSE SubSeq(listed, Min(0 - n, Len(listed)) + 1, Len(listed))
    ELSE listed

\* ConversationMemory.get_recent_conversations: list(conversations)[-n:]
\* when n <= len(conversations), the whole list otherwise
get_recent_conversations(convs, n) == RecentOf(convs, n, Len(convs))

\* the lines get_conversation_context joins by "\n", two per turn
ContextLines(recent) ==
    [i \in 1..(2 * Len(recent)) |->
        IF i % 2 = 1
        THEN [role |-> "User",
              content |-> recent[(i + 1) \div 2].user_query]
        ELSE [role |-> "Assistant",
              content |-> recent[i \div 2].assistant_response]]

\* ConversationMemory.get_conversation_context
get_conversation_context(convs, n) ==
    ContextLines(get_recent_conversations(convs, n))

\* a call of ConversationMemory.get_recent_conversations(n)
GetRecentConversations ==
    \E n \in 0..(MaxAppends + 1) :
        /\ call.op = "idle"
        /\ call' = [op |-> "recent", n |-> n,
                    result |-> get_recent_conversations(conversations, n)]
        /\ UNCHANGED <<varsMem, session_files, source, embed, collection>>

----------------------------------------------------------------------------
(* BengaliVectorStore.get_collection_stats and delete_collection *)

\* the sample bound of get_collection_stats: limit=min(100, count)
SampleLimit == 100

\* collection.get(limit=limit): the first limit rows
ChromaGet(coll, limit) == SubSeq(coll, 1, Min(limit, Len(coll)))

\* content_types after the loop of get_collection_stats over the sampled
\* metadatas: a key per type in the order of first occurrence, its value the
\* number of sampled rows of the type
TallyTypes(rows) ==
    LET firsts == SelectSeq([i \in 1..Len(rows) |-> i],
                            LAMBDA i : \A j \in 1..(i - 1) :
                                            DocTypeOf(rows[j]) # DocTypeOf(rows[i]))
    IN  [k \in 1..Len(firsts) |->
            <<DocTypeOf(rows[firsts[k]]),
              Cardinality({i \in 1..Len(rows) :
                            DocTypeOf(rows[i]) = DocTypeOf(rows[firsts[k]])})>>]

\* statistics that tally every row of the collection
get_collection_stats_whole(coll) ==
    [total_documents |-> Len(coll),
     content_types |-> TallyTypes(coll)]

\* BengaliVectorStore.get_collection_stats
get_collection_stats(coll) ==
    LET count == Len(coll)
        sample_results == ChromaGet(coll, Min(SampleLimit, count))
    IN  [total_documents |-> count,
         content_types |-> TallyTypes(sample_results)]

\* a delete_collection without the try/except around the client call
delete_collection_unguarded(absent) == [raised |-> absent, reported |-> FALSE]

\* BengaliVectorStore.delete_collection when the collection is absent or
\* not: the client raises for an absent collection, and the except branch
\* reports it. The value is [raised, reported].
delete_collection(absent) == [raised |-> FALSE, reported |-> absent]

\* the largest number of story sections of a knowledge base of the
\* statistics calls
MaxBulk == 102

\* a knowledge base of story sections with or without a glossary entry
DocBulk(sections, glossary) ==
    MakeDoc({"story_text", "word_meanings"},
            [i \in 1..sections |->
                [section |-> i, title |-> TxtKa, content |-> TxtGolpo]],
            <<>>, <<>>,
            IF glossary THEN GlossaryOne ELSE <<>>,
            <<>>)

BulkDocs ==
    {DocBulk(sections, glossary) :
        sections \in (0..3) \cup ((MaxBulk - 4)..MaxBulk),
        glossary \in BOOLEAN}

\* a fresh installation over one of the large knowledge bases
AdminInit ==
    /\ source \in BulkDocs
    /\ embed = [t \in EmbedTexts |-> 0]
    /\ collection = <<>>
    /\ call = IdleCall
    /\ deleted = FALSE

\* process_and_store_documents through the collection handle of the store;
\* collection.add on a deleted collection raises
ProcessAndStore ==
    LET built == process_and_store_documents(collection, source)
    IN  /\ call.op = "idle"
        /\ collection' = IF deleted THEN collection ELSE built.collection
        /\ call' = [op |-> "build", raised |-> deleted \/ built.raised,
                    count |-> IF deleted THEN 0 ELSE built.count]
        /\ UNCHANGED <<source, embed, deleted>>

\* a call of get_collection_stats; collection.count on a deleted
\* collection raises
GetCollectionStats ==
    /\ call.op = "idle"
    /\ call' = IF deleted
               THEN [op |-> "stats", raised |-> TRUE,
                     result |-> get_collection_stats(<<>>)]
               ELSE [op |-> "stats", raised |-> FALSE,
                     result |-> get_collection_stats(collection)]
    /\ UNCHANGED <<source, embed, collection, deleted>>

\* a call of delete_collection
DeleteCollection ==
    LET done == delete_collection(deleted)
    IN  /\ call.op = "idle"
        /\ call' = [op |-> "delete", raised |-> done.raised,
                    reported |-> done.reported, absent |-> deleted]
        /\ deleted' = TRUE
        /\ collection' = <<>>
        /\ UNCHANGED <<source, embed>>

\* a new BengaliVectorStore: get_collection, and create_collection when
\* there is none
Reopen ==
    /\ call.op = "idle"
    /\ deleted
    /\ deleted' = FALSE
    /\ collection' = <<>>
    /\ UNCHANGED <<source, embed, call>>

\* a retrieved chunk of a past interaction
SampleChunk ==
    [content |-> TxtGolpo, metadata |-> [type |-> "story"],
     distance |-> 0, id |-> DocId("story", 0)]

\* the statistics after one interaction
StatsAfterOne ==
    [query_patterns |->
        record_query_pattern(<<>>, TxtGolpo, "bn", <<SampleChunk>>, 0),
     document_access_frequency |-> RecordAccesses(<<>>, <<SampleChunk>>, 0),
     user_preferences |->
        update_user_preferences(<<>>, "bn", infer_topic_type(<<SampleChunk>>))]

\* the statistics files found at startup: none, an unreadable one, a
\* truncated pickle, the pickle of a list, the pickle of an empty dict,
\* a file save_memory_data wrote, and a file whose query_patterns is None
StatFiles ==
    {NoFile, UnreadableFile, CorruptFile,
     PickleFile(FALSE, <<>>),
     PickleFile(TRUE, <<>>),
     save_memory_data(StatsAfterOne.query_patterns,
                      StatsAfterOne.document_access_frequency,
                      StatsAfterOne.user_preferences, 0),
     PickleFile(TRUE,
                << <<"query_patterns", PyNone>>,
                   <<"document_access_frequency",
                     PyDict(StatsAfterOne.document_access_frequency)>>,
                   <<"user_preferences",
                     PyDict(StatsAfterOne.user_preferences)>> >>)}

\* whether a statistics file is the pickle of a dict whose three maps are
\* dicts
WellFormed(file) ==
    /\ file.kind = "pickle"
    /\ file.is_dict
    /\ \A key \in {"query_patterns", "document_access_frequency",
                    "user_preferences"} :
            DictHas(file.items, key) => DictGet(file.items, key).py = "dict"

\* the statistics file on disk is replaced
ReplaceFile ==
    /\ call.op = "idle"
    /\ memory_file' \in StatFiles
    /\ UNCHANGED <<varsMem, varsStats, varsIndex, distances, deleted, session_files>>

\* MemoryManager.__init__: a fresh ConversationMemory, a fresh
\* DocumentMemory and load_memory_data on it
Startup ==
    LET loaded == load_memory_data(memory_file, <<>>, <<>>, <<>>)
    IN  /\ call.op = "idle"
        /\ max_size' = SHORT_TERM_MEMORY_SIZE
        /\ conversations' = <<>>
        /\ session_id' = SessionStamp(now)
        /\ appended' = <<>>
        /\ query_patterns' = loaded.query_patterns
        /\ document_access_frequency' = loaded.document_access_frequency
        /\ user_preferences' = loaded.user_preferences
        /\ call' = [op |-> "startup", raised |-> loaded.raised,
                    outcome |-> loaded.outcome, sized |-> loaded.sized,
                    well_formed |-> WellFormed(memory_file)]
        /\ UNCHANGED <<now, source, embed, collection, varsEnv>>

----------------------------------------------------------------------------
(* MemoryManager.add_interaction called directly *)

\* the query "STORY " and a retrieved glossary chunk
TxtStoryShout == <<"S", "T", "O", "R", "Y", " ">>
GlossaryChunk ==
    [content |-> TxtKa, metadata |-> [type |-> "word_meaning"],
     distance |-> 9, id |-> DocId("word_meaning", 1)]

\* the arguments add_interaction is called with:
\* <<user_query, assistant_response, retrieved_chunks, language>>
InteractionArgs ==
    {<<TxtStory, "r1", <<>>, "en">>,
     <<TxtStoryShout, "r2", <<SampleChunk>>, "bn">>,
     <<TxtGolpo, "r3", <<SampleChunk, GlossaryChunk>>, "bn">>,
     <<TxtGolpo, "r4", <<GlossaryChunk, GlossaryChunk>>, "en">>}

\* a MemoryManager whose statistics file is absent
InteractInit ==
    /\ max_size = SHORT_TERM_MEMORY_SIZE
    /\ conversations = <<>>
    /\ now = 0
    /\ session_id = SessionStamp(0)
    /\ appended = <<>>
    /\ StatsInit

\* a call of MemoryManager.add_interaction
AddInteraction ==
    \E a \in InteractionArgs : add_interaction(a[1], a[2], a[3], a[4])

\* the largest number of recorded events (query patterns, document accesses
\* and language tallies together) after which further events are recorded
MaxLedger == 3

Recorded ==
    SumCounts(query_patterns) + SumCounts(document_access_frequency)
    + (IF DictHas(user_preferences, "language_preference")
       THEN SumValues(DictGet(user_preferences, "language_preference"))
       ELSE 0)

\* a conversation buffer filled to its capacity by earlier turns
OldTurn ==
    [timestamp |-> 0, user_query |-> TxtKa, assistant_response |-> "r0",
     language |-> "bn", retrieved_chunks |-> <<>>, session_id |-> SessionStamp(0)]
FullBuffer == [i \in 1..SHORT_TERM_MEMORY_SIZE |-> OldTurn]

\* a memory manager with an empty or a full conversation buffer
LedgerInit ==
    /\ max_size = SHORT_TERM_MEMORY_SIZE
    /\ conversations \in {<<>>, FullBuffer}
    /\ now = 0
    /\ session_id = SessionStamp(0)
    /\ appended = <<>>
    /\ StatsInit
    /\ session_files = <<>>
    /\ memory_file = NoFile

\* the arguments of the calls on that memory manager
LedgerArgs ==
    {<<TxtStoryShout, "r2", <<SampleChunk>>, "bn">>}

\* a call of MemoryManager.add_interaction
LedgerInteraction ==
    \E a \in LedgerArgs :
        /\ Recorded < MaxLedger
        /\ add_interaction(a[1], a[2], a[3], a[4])
        /\ UNCHANGED <<session_files, memory_file>>

\* a direct call of ConversationMemory.add_conversation
LedgerTurn ==
    /\ Len(appended) + Recorded < MaxLedger
    /\ add_conversation(TxtStory, "r1", <<>>, "en")
    /\ UNCHANGED <<varsStats, session_files, memory_file>>

\* a direct call of DocumentMemory.record_query_pattern
RecordQueryPattern ==
    \E a \in LedgerArgs :
        /\ Recorded < MaxLedger
        /\ query_patterns' = record_query_pattern(query_patterns, a[1], a[4], a[3], now)
        /\ UNCHANGED <<varsMem, document_access_frequency, user_preferences,
                       session_files, memory_file>>

\* a direct call of DocumentMemory.record_document_access
RecordDocumentAccess ==
    \E chunk \in {SampleChunk, GlossaryChunk} :
        /\ Recorded < MaxLedger
        /\ document_access_frequency' =
                record_document_access(document_access_frequency, chunk.id,
                                       DocTypeOf(chunk), now)
        /\ UNCHANGED <<varsMem, query_patterns, user_preferences,
                       session_files, memory_file>>

\* a direct call of DocumentMemory.update_user_preferences
UpdateUserPreferences ==
    \E preference \in {<<"bn", "story">>, <<"en", "unknown">>} :
        /\ Recorded < MaxLedger
        /\ user_preferences' =
                update_user_preferences(user_preferences, preference[1],
                                        preference[2])
        /\ UNCHANGED <<varsMem, query_patterns, document_access_frequency,
                       session_files, memory_file>>

\* ConversationMemory.clear_memory on that memory manager
LedgerClear ==
    /\ clear_memory
    /\ UNCHANGED <<varsStats, session_files, memory_file>>

\* MemoryManager.save_all_memory: conversation_memory.save_session() and
\* then document_memory.save_memory_data()
SaveAllMemory ==
    /\ session_files' =
            DictSet(session_files, SessionPath(session_id),
                    [content |-> SessionData(session_id, conversations, now),
                     at_save |-> [session_id |-> session_id,
                                  conversations |-> conversations]])
    /\ memory_file' = save_memory_data(query_patterns, document_access_frequency,
                                       user_preferences, now)
    /\ UNCHANGED <<varsMem, varsStats>>

\* a direct call of DocumentMemory.save_memory_data()
SaveMemoryData ==
    /\ memory_file' = save_memory_data(query_patterns, document_access_frequency,
                                       user_preferences, now)
    /\ UNCHANGED <<varsMem, varsStats, session_files>>

(* BengaliRAGSystem.translate_query_if_needed called by retrieve_relevant_chunks *)

\* the largest length of a query handed to translate_query_if_needed
MaxQueryLen == 6

TxtPlotMixed == <<"P", "l", "O", "t">>

\* the pieces queries are typed in: table terms in several spellings, a letter
\* that extends a word, separators, a Bengali letter, a Bengali vowel sign
\* and a Bengali word
Pieces ==
    {TxtStory, TxtPlotMixed, <<"s">>, <<" ">>, <<"-">>, <<"U0995">>,
     <<"U09BE">>, TxtGolpo}

TranslateInit ==
    /\ langText = <<>>
    /\ langResult = "none"
    /\ call = IdleCall

\* the user types one more piece of the query
ExtendQuery ==
    \E piece \in Pieces :
        /\ call.op = "idle"
        /\ Len(langText) + Len(piece) <= MaxQueryLen
        /\ langText' = langText \o piece
        /\ UNCHANGED <<langResult, call>>

\* the call translate_query_if_needed(langText, 'bn') of
\* retrieve_relevant_chunks
TranslateQuery ==
    /\ call.op = "idle"
    /\ call' = [op |-> "translate",
                result |-> translate_query_if_needed(langText, "bn")]
    /\ UNCHANGED <<langText, langResult>>

\* the caller takes the rewritten query
TranslateReturn ==
    /\ call.op = "translate"
    /\ call' = IdleCall
    /\ UNCHANGED <<langText, langResult>>

----------------------------------------------------------------------------
(* BengaliTextPreprocessor.clean_text called on typed text *)

\* the largest length of a text handed to clean_text
MaxTextLen == 4

\* the characters of those texts: a Latin letter, a space, a line feed, a
\* Bengali letter, khanda ta, nukta and virama
CleanAlphabet == {"a", " ", "U000A", "U0995", "U09CE", "U09BC", "U09CD"}

CleanInit ==
    /\ langText = <<>>
    /\ langResult = "none"
    /\ call = IdleCall

\* one more character of the text arrives
TypeCharacter ==
    \E c \in CleanAlphabet :
        /\ call.op = "idle"
        /\ Len(langText) < MaxTextLen
        /\ langText' = Append(langText, c)
        /\ UNCHANGED <<langResult, call>>

\* a call clean_text(langText)
CleanText ==
    /\ call.op = "idle"
    /\ call' = [op |-> "clean", text |-> langText, result |-> clean_text(langText)]
    /\ UNCHANGED <<langText, langResult>>

\* a call of clean_text on the text the previous call returned
CleanAgain ==
    /\ call.op = "clean"
    /\ call' = [op |-> "clean", text |-> call.result,
                result |-> clean_text(call.result)]
    /\ UNCHANGED <<langText, langResult>>

\* the caller takes the cleaned text
CleanReturn ==
    /\ call.op = "clean"
    /\ call' = IdleCall
    /\ UNCHANGED <<langText, langResult>>

----------------------------------------------------------------------------
(* DocumentMemory.get_query_suggestions *)

\* the largest number of queries recorded before suggestions are asked for
MaxRecords == 6

\* the queries recorded and the partial queries suggestions are asked for
TxtStore == <<"s", "t", "o", "r", "e">>
SuggestQueries == {TxtStory, TxtStore, TxtGolpo}
Partials == {<<>>, <<"S", "T", "O">>, <<"r", "y">>, TxtKa}

\* a DocumentMemory and the outcome of the last call on it
SuggestInit ==
    /\ StatsInit
    /\ now = 0
    /\ call = IdleCall

\* a call of DocumentMemory.record_query_pattern
RecordQuery ==
    \E query \in SuggestQueries :
        /\ call.op = "idle"
        /\ SumCounts(query_patterns) < MaxRecords
        /\ query_patterns' = record_query_pattern(query_patterns, query, "en", <<>>, now)
        /\ UNCHANGED <<document_access_frequency, user_preferences, now, call>>

\* a call of DocumentMemory.get_query_suggestions
GetQuerySuggestions ==
    \E partial_query \in Partials, limit \in 0..3 :
        /\ call.op = "idle"
        /\ call' = [op |-> "suggest", partial |-> partial_query, limit |-> limit,
                    result |-> get_query_suggestions(query_patterns,
                                                     partial_query, limit)]
        /\ UNCHANGED <<varsStats, now>>

\* the caller takes the suggestions
SuggestReturn ==
    /\ call.op # "idle"
    /\ call' = IdleCall
    /\ UNCHANGED <<varsStats, now>>

----------------------------------------------------------------------------
(* BengaliRAGSystem.process_query *)

\* the label create_context_from_chunks gives a chunk type
ContextLabel(chunk_type) ==
    CASE chunk_type = "story" -> "story part"
      [] chunk_type = "character" -> "character information"
      [] chunk_type = "mcq" -> "question and answer"
      [] chunk_type = "word_meaning" -> "word meaning"
      [] OTHER -> "information"

\* BengaliRAGSystem.create_context_from_chunks: the parts joined by "\n\n"
create_context_from_chunks(chunk_list) ==
    [i \in 1..Len(chunk_list) |->
        [label |-> ContextLabel(DocTypeOf(chunk_list[i])),
         number |-> i,
         content |-> chunk_list[i].content]]

\* the fixed texts of the apology, English and Bengali (the Bengali one is
\* named by the code points of its first word)
ApologyEn ==
    "I apologize, but I encountered an error while generating the response. Please try again. Error: "
ApologyBn == "U09A6 U09C1 U0983 U0996 U09BF U09A4 ... U09A4 U09CD U09B0 U09C1 U099F U09BF: "
ErrorPrefix == "Error generating response: "

\* the outcomes of the call of the language model: an answer, or an
\* exception with its message
LlmOutcomes ==
    {[ok |-> TRUE, text |-> "answer"], [ok |-> FALSE, text |-> "timeout"]}

\* the generation service answers
Answer == [ok |-> TRUE, text |-> "answer"]

\* the mistaken variant without the exception handler
generate_response_unguarded(query, context, conversation_context, llm) ==
    LET query_language == detect_language(query)
    IN  [raised |-> ~llm.ok,
         messages |-> [system |-> IF query_language = "en" THEN "en" ELSE "bn",
                       conversation_context |-> conversation_context,
                       question |-> query, context |-> context],
         response |-> <<llm.text>>]

\* BengaliRAGSystem.generate_response with the outcome llm of the model
\* call; the value is [raised, messages, response], a response being the
\* sequence of the pieces of its text
generate_response(query, context, conversation_context, llm) ==
    LET query_language == detect_language(query)
        error_msg == <<ErrorPrefix, llm.text>>
    IN  [raised |-> FALSE,
         messages |-> [system |-> IF query_language = "en" THEN "en" ELSE "bn",
                       conversation_context |-> conversation_context,
                       question |-> query, context |-> context],
         response |->
            IF llm.ok THEN <<llm.text>>
            ELSE IF query_language = "en" THEN <<ApologyEn>> \o error_msg
            ELSE <<ApologyBn>> \o error_msg]

\* the queries handed to process_query
RagQueries == {TxtStory, TxtGolpo}

\* the embedding models of the process_query runs
RagEmbeds ==
    {e \in [EmbedTexts -> Points] : \A t \in EmbedTexts \ {TxtGolpo} : e[t] = 0}

\* a started application: the index is built from the knowledge base file
RagInit ==
    /\ source \in IndexDocs
    /\ embed \in RagEmbeds
    /\ collection = process_and_store_documents(<<>>, source).collection
    /\ call = IdleCall

\* the threads that call into one BengaliRAGSystem: one for the command
\* line application, one per concurrent request of a hosting server.  The
\* code takes no lock, so a thread can be suspended between any two lines
\* and at any call inside a line, and another thread runs meanwhile.
Threads == DOMAIN running

\* no call of the generation service
NoAnswer == [ok |-> TRUE, text |-> "none"]

\* a thread that is not inside process_query.  Inside the call pc names the
\* statement the thread executes next, at the position in add_interaction,
\* llm the outcome the generation service has for the call once it is
\* asked, seen the size an iterator found when its loop began, held the
\* dict objects the thread holds a reference of that are still the ones in
\* the stores, read the value a d.get(k, 0) returned
IdleThread ==
    [pc |-> "idle", at |-> 0, query |-> <<>>, conversation_context |-> <<>>,
     retrieved_chunks |-> <<>>, document_context |-> <<>>, llm |-> NoAnswer,
     seen |-> 0, held |-> {}, read |-> 0]

\* no thread is modelled
NoneRunning == running = <<>>

\* the outcome of a process_query of thread t that ends with an exception
RaisedCall(t, error) ==
    [op |-> "process_query", thread |-> t, query |-> running[t].query,
     llm_failed |-> FALSE,
     raised |-> TRUE, error |-> error, messages |-> <<>>, result |-> <<>>]

\* thread t leaves process_query with an exception
Raise(t, error) ==
    /\ call' = RaisedCall(t, error)
    /\ running' = [running EXCEPT ![t] = IdleThread]

\* a call process_query(query, use_conversation_context) that has just
\* been entered and that the generation service will give the outcome llm
Entered(query, use_conversation_context, llm) ==
    [IdleThread EXCEPT
        !.pc = IF use_conversation_context
               THEN "get_conversation_context" ELSE "retrieve",
        !.query = query,
        !.llm = llm]

\* BengaliRAGSystem.process_query is entered by an idle thread whose caller
\* has taken the outcome of the call before
ProcessQuery ==
    \E t \in Threads, query \in RagQueries, use_conversation_context \in BOOLEAN,
       llm \in LlmOutcomes :
        /\ call.op = "idle"
        /\ running[t].pc = "idle"
        /\ Len(appended) + Cardinality({u \in Threads : running[u].pc # "idle"})
                < MaxQueries
        /\ running' = [running EXCEPT ![t] =
                            Entered(query, use_conversation_context, llm)]
        /\ UNCHANGED <<varsMem, varsStats, source, embed, collection, call>>

\* MemoryManager.get_context_for_query up to the value of
\* 'conversation_context', get_conversation_context(3): its
\* get_recent_conversations(3) tests "n <= len(self.conversations)" and
\* then copies the deque with list(), two calls another thread can run
\* between.  (The copy made for 'recent_conversations' before it is not
\* used by process_query.)
ReadConversationContext ==
    \E t \in Threads :
        /\ running[t].pc \in {"get_conversation_context", "list_conversations"}
        /\ running' = [running EXCEPT ![t] =
                IF running[t].pc = "get_conversation_context"
                THEN [@ EXCEPT !.pc = "list_conversations",
                               !.seen = Len(conversations)]
                ELSE [@ EXCEPT !.pc = "search_conversation_history",
                               !.seen = 0,
                               !.conversation_context =
                                    ContextLines(RecentOf(conversations, 3,
                                                          running[t].seen))]]
        /\ UNCHANGED <<varsMem, varsStats, source, embed, collection, call>>

\* search_conversation_history: "for conv in self.conversations" walks the
\* deque with a Python loop.  On an empty deque the loop ends at once; on
\* any other the thread can be suspended inside the loop, and the iterator
\* raises RuntimeError on its next step when the deque was appended to
\* meanwhile.  The matches are not used by process_query.
SearchHistoryLoop ==
    \E t \in Threads :
        /\ running[t].pc \in {"search_conversation_history", "in_history_loop"}
        /\ IF running[t].pc = "search_conversation_history"
           THEN /\ running' = [running EXCEPT ![t] =
                        IF conversations = <<>>
                        THEN [@ EXCEPT !.pc = "get_query_suggestions"]
                        ELSE [@ EXCEPT !.pc = "in_history_loop",
                                       !.seen = Len(appended)]]
                /\ UNCHANGED call
           ELSE IF Len(appended) # running[t].seen
           THEN Raise(t, "deque mutated during iteration")
           ELSE /\ running' = [running EXCEPT ![t] =
                        [@ EXCEPT !.pc = "get_query_suggestions", !.seen = 0]]
                /\ UNCHANGED call
        /\ UNCHANGED <<varsMem, varsStats, source, embed, collection>>

\* get_query_suggestions: "for query, pattern in self.query_patterns.items()"
\* walks the dict with a Python loop; the iterator raises RuntimeError when
\* a key was added to the dict meanwhile.  The suggestions are not used by
\* process_query.
SuggestionsLoop ==
    \E t \in Threads :
        /\ running[t].pc \in {"get_query_suggestions", "in_suggestions_loop"}
        /\ IF running[t].pc = "get_query_suggestions"
           THEN /\ running' = [running EXCEPT ![t] =
                        IF query_patterns = <<>>
                        THEN [@ EXCEPT !.pc = "get_preferred_language"]
                        ELSE [@ EXCEPT !.pc = "in_suggestions_loop",
                                       !.seen = Len(query_patterns)]]
                /\ UNCHANGED call
           ELSE IF Len(query_patterns) # running[t].seen
           THEN Raise(t, "dictionary changed size during iteration")
           ELSE /\ running' = [running EXCEPT ![t] =
                        [@ EXCEPT !.pc = "get_preferred_language", !.seen = 0]]
                /\ UNCHANGED call
        /\ UNCHANGED <<varsMem, varsStats, source, embed, collection>>

\* get_preferred_language: the test of line 170, the fetch of the tally of
\* line 173, and max(lang_prefs.items(), key=lambda ...) of line 174, which
\* calls a Python function per item: max of an empty tally raises
\* ValueError, and the iterator raises RuntimeError when a language was
\* added to the tally it walks.  The language is not used by process_query.
PreferredLanguageLoop ==
    \E t \in Threads :
        LET present == /\ DictHas(user_preferences, "language_preference")
                       /\ DictGet(user_preferences, "language_preference") # <<>>
            lang_prefs == DictGet(user_preferences, "language_preference")
        IN  /\ running[t].pc \in {"get_preferred_language", "fetch_lang_prefs",
                                  "in_max_loop"}
            /\ IF running[t].pc = "get_preferred_language"
               THEN /\ running' = [running EXCEPT ![t] =
                            [@ EXCEPT !.pc = IF present THEN "fetch_lang_prefs"
                                             ELSE "retrieve"]]
                    /\ UNCHANGED call
               ELSE IF running[t].pc = "fetch_lang_prefs"
               THEN IF lang_prefs = <<>>
                    THEN Raise(t, "max() arg is an empty sequence")
                    ELSE /\ running' = [running EXCEPT ![t] =
                                [@ EXCEPT !.pc = "in_max_loop",
                                          !.seen = Len(lang_prefs),
                                          !.held = {"lang_pref"}]]
                         /\ UNCHANGED call
               ELSE IF /\ "lang_pref" \in running[t].held
                       /\ Len(lang_prefs) # running[t].seen
               THEN Raise(t, "dictionary changed size during iteration")
               ELSE /\ running' = [running EXCEPT ![t] =
                            [@ EXCEPT !.pc = "retrieve", !.seen = 0,
                                      !.held = {}]]
                    /\ UNCHANGED call
            /\ UNCHANGED <<varsMem, varsStats, source, embed, collection>>

\* process_query from retrieve_relevant_chunks to the blocking call
\* self.llm(messages) of generate_response: the index is searched and the
\* context is built, then the call waits for the generation service; a
\* search that raises ends the call
ProcessQueryRetrieve ==
    \E t \in Threads :
        LET got == retrieve_relevant_chunks(collection, embed, running[t].query,
                                            MAX_CHUNKS_TO_RETRIEVE)
        IN  /\ running[t].pc = "retrieve"
            /\ IF got.raised
               THEN Raise(t, "search")
               ELSE /\ running' = [running EXCEPT ![t] =
                            [@ EXCEPT !.pc = "llm",
                                      !.retrieved_chunks = got.results,
                                      !.document_context =
                                        create_context_from_chunks(got.results)]]
                    /\ UNCHANGED call
            /\ UNCHANGED <<varsMem, varsStats, source, embed, collection>>

\* the response generate_response gives thread t
ResponseOf(w) ==
    generate_response(w.query, w.document_context, w.conversation_context,
                      w.llm)

\* the generation service answers or fails a waiting call: the rest of
\* generate_response and detect_language, up to the call of add_interaction
ProcessQueryAnswered ==
    \E t \in Threads :
        /\ running[t].pc = "llm"
        /\ IF ResponseOf(running[t]).raised
           THEN /\ call' = [RaisedCall(t, "llm") EXCEPT
                                !.llm_failed = ~running[t].llm.ok]
                /\ running' = [running EXCEPT ![t] = IdleThread]
           ELSE /\ running' = [running EXCEPT ![t] =
                        [@ EXCEPT !.pc = "add_conversation", !.at = 1]]
                /\ UNCHANGED call
        /\ UNCHANGED <<varsMem, varsStats, source, embed, collection>>

\* query.lower().strip(), the key of a query in query_patterns
QueryKey(query) == Strip(LowerText(query))

\* one statement of add_interaction and of the three DocumentMemory
\* methods it calls: what it does (op), the store and the key of the entry
\* it works on, the local name of the dict object it works through (ref,
\* "" when it indexes the store itself), and the field and the tally key
\* (for an inserted access entry: the type) it reads or writes
Statement(op, store, key, ref, field, tally) ==
    [op |-> op, store |-> store, key |-> key, ref |-> ref, field |-> field,
     tally |-> tally]

\* MemoryManager.add_interaction(user_query, response, retrieved_chunks,
\* language) as the sequence of its statements: add_conversation (217-219),
\* record_query_pattern (101-118), record_document_access per chunk
\* (122-131), update_user_preferences (157-166), and the return of
\* process_query that follows it.  A "check" is a test "key not in store",
\* the "insert" after it the store of a fresh entry; "d[k] = d.get(k, 0) + 1"
\* is a "get" and a "set", since the call of get lets another thread run.
add_interaction_statements(user_query, language, retrieved_chunks) ==
    LET key == QueryKey(user_query)
        topic_type == infer_topic_type(retrieved_chunks)
        qp == "query_patterns"
        daf == "document_access_frequency"
        up == "user_preferences"
    IN  <<Statement("add_conversation", "", "", "", "", "")>>
        \o <<Statement("check", qp, key, "pattern", "", ""),
             Statement("insert", qp, key, "pattern", "", ""),
             Statement("fetch", qp, key, "pattern", "", ""),
             Statement("count", qp, key, "pattern", "count", ""),
             Statement("stamp", qp, key, "pattern", "last_seen", ""),
             Statement("get", qp, key, "pattern", "languages", language),
             Statement("set", qp, key, "pattern", "languages", language)>>
        \o Flatten([i \in 1..Len(retrieved_chunks) |->
                <<Statement("get", qp, key, "pattern", "common_doc_types",
                            DocTypeOf(retrieved_chunks[i])),
                  Statement("set", qp, key, "pattern", "common_doc_types",
                            DocTypeOf(retrieved_chunks[i]))>>])
        \o Flatten([i \in 1..Len(retrieved_chunks) |->
                <<Statement("check", daf, retrieved_chunks[i].id, "", "",
                            DocTypeOf(retrieved_chunks[i])),
                  Statement("insert", daf, retrieved_chunks[i].id, "", "",
                            DocTypeOf(retrieved_chunks[i])),
                  Statement("count", daf, retrieved_chunks[i].id, "",
                            "count", ""),
                  Statement("stamp", daf, retrieved_chunks[i].id, "",
                            "last_accessed", "")>>])
        \o <<Statement("check", up, "language_preference", "lang_pref", "", ""),
             Statement("insert", up, "language_preference", "lang_pref", "", ""),
             Statement("check", up, "topic_preference", "topic_pref", "", ""),
             Statement("insert", up, "topic_preference", "topic_pref", "", ""),
             Statement("fetch", up, "language_preference", "lang_pref", "", ""),
             Statement("fetch", up, "topic_preference", "topic_pref", "", ""),
             Statement("get", up, "language_preference", "lang_pref", "",
                       language),
             Statement("set", up, "language_preference", "lang_pref", "",
                       language),
             Statement("get", up, "topic_preference", "topic_pref", "",
                       topic_type),
             Statement("set", up, "topic_preference", "topic_pref", "",
                       topic_type)>>
        \o <<Statement("return", "", "", "", "", "")>>

\* the statements of the add_interaction call of thread t
StatementsOf(t) ==
    add_interaction_statements(running[t].query,
                               detect_language(running[t].query),
                               running[t].retrieved_chunks)

\* the statement thread t executes next
NextStatement(t) == StatementsOf(t)[running[t].at]

\* thread t is in add_interaction before a statement of kind op: there pc
\* is the kind of the statement at position at
Before(t, op) == running[t].pc = op

\* thread t after it went on by n statements
Past(t, n) ==
    [running[t] EXCEPT !.at = @ + n,
                       !.pc = StatementsOf(t)[running[t].at + n].op]

\* the three maps of DocumentMemory by name
StoreOf(name) ==
    CASE name = "query_patterns" -> query_patterns
      [] name = "document_access_frequency" -> document_access_frequency
      [] name = "user_preferences" -> user_preferences

\* the map of that name is replaced by value
WriteStore(name, value) ==
    /\ query_patterns' = IF name = "query_patterns" THEN value
                         ELSE query_patterns
    /\ document_access_frequency' =
            IF name = "document_access_frequency" THEN value
            ELSE document_access_frequency
    /\ user_preferences' = IF name = "user_preferences" THEN value
                           ELSE user_preferences

\* the entry a statement works on is replaced by entry
WriteEntry(s, entry) ==
    WriteStore(s.store, DictSet(StoreOf(s.store), s.key, entry))

\* whether the dict object thread t works through is the one in the store:
\* a reference fetched before another thread stored a fresh entry under the
\* key leads to the replaced object, which nothing else reads
Live(t, s) == s.ref = "" \/ s.ref \in running[t].held

\* the tally a get or set statement works on
TallyOf(s) ==
    IF s.field = "" THEN DictGet(StoreOf(s.store), s.key)
    ELSE DictGet(StoreOf(s.store), s.key)[s.field]

\* the entry a check found missing, as the insert builds it
FreshEntry(s) ==
    CASE s.store = "query_patterns" ->
            [count |-> 0, languages |-> <<>>, common_doc_types |-> <<>>,
             first_seen |-> now, last_seen |-> now]
      [] s.store = "document_access_frequency" ->
            [count |-> 0, type |-> s.tally,
             first_accessed |-> now, last_accessed |-> now]
      [] s.store = "user_preferences" -> <<>>

\* thread t goes on by n statements
Proceed(t, n) == running' = [running EXCEPT ![t] = Past(t, n)]

\* thread t appends its turn: MemoryManager.add_interaction calls
\* add_conversation, and deque.append is one step
AppendTurn ==
    \E t \in Threads :
        /\ Before(t, "add_conversation")
        /\ add_conversation(running[t].query, ResponseOf(running[t]).response,
                            running[t].retrieved_chunks,
                            detect_language(running[t].query))
        /\ Proceed(t, 1)
        /\ UNCHANGED <<varsStats, source, embed, collection, call>>

\* "if key not in store": the insert that follows is skipped when the key
\* is there
CheckKey ==
    \E t \in Threads :
        /\ Before(t, "check")
        /\ Proceed(t, IF DictHas(StoreOf(NextStatement(t).store),
                                 NextStatement(t).key) THEN 2 ELSE 1)
        /\ UNCHANGED <<varsMem, varsStats, source, embed, collection, call>>

\* "store[key] = {...}": a fresh entry is stored, which replaces an entry
\* another thread stored under the key since the check; the threads that
\* hold the replaced object hold it alone from now on
InsertEntry ==
    \E t \in Threads :
        LET s == NextStatement(t)
            holds(u) ==
                /\ u # t
                /\ s.ref \in running[u].held
                /\ s.ref = "pattern" => QueryKey(running[u].query) = s.key
        IN  /\ Before(t, "insert")
            /\ WriteEntry(s, FreshEntry(s))
            /\ running' = [u \in Threads |->
                    IF u = t THEN Past(t, 1)
                    ELSE IF holds(u)
                    THEN [running[u] EXCEPT !.held = @ \ {s.ref}]
                    ELSE running[u]]
            /\ UNCHANGED <<varsMem, source, embed, collection, call>>

\* "pattern = self.query_patterns[query_key]" and the like: the thread
\* takes a reference of the dict object in the store
FetchEntry ==
    \E t \in Threads :
        /\ Before(t, "fetch")
        /\ running' = [running EXCEPT ![t] =
                [Past(t, 1) EXCEPT !.held = @ \cup {NextStatement(t).ref}]]
        /\ UNCHANGED <<varsMem, varsStats, source, embed, collection, call>>

\* "entry['count'] += 1": no call lies between the read and the write, so
\* the interpreter runs the line in one piece
CountEntry ==
    \E t \in Threads :
        LET s == NextStatement(t)
            entry == DictGet(StoreOf(s.store), s.key)
        IN  /\ Before(t, "count")
            /\ IF Live(t, s)
               THEN WriteEntry(s, [entry EXCEPT !.count = @ + 1])
               ELSE UNCHANGED varsStats
            /\ Proceed(t, 1)
            /\ UNCHANGED <<varsMem, source, embed, collection, call>>

\* "entry['last_seen'] = datetime.now().isoformat()" and the like
StampEntry ==
    \E t \in Threads :
        LET s == NextStatement(t)
            entry == DictGet(StoreOf(s.store), s.key)
        IN  /\ Before(t, "stamp")
            /\ IF Live(t, s)
               THEN WriteEntry(s, [entry EXCEPT ![s.field] = now])
               ELSE UNCHANGED varsStats
            /\ Proceed(t, 1)
            /\ UNCHANGED <<varsMem, source, embed, collection, call>>

\* the right-hand side of "d[k] = d.get(k, 0) + 1"
ReadTally ==
    \E t \in Threads :
        LET s == NextStatement(t)
        IN  /\ Before(t, "get")
            /\ running' = [running EXCEPT ![t] =
                    [Past(t, 1) EXCEPT
                        !.read = IF Live(t, s) /\ DictHas(TallyOf(s), s.tally)
                                 THEN DictGet(TallyOf(s), s.tally)
                                 ELSE 0]]
            /\ UNCHANGED <<varsMem, varsStats, source, embed, collection, call>>

\* the store of "d[k] = d.get(k, 0) + 1": the value read plus one
StoreTally ==
    \E t \in Threads :
        LET s == NextStatement(t)
            entry == DictGet(StoreOf(s.store), s.key)
            tally == DictSet(TallyOf(s), s.tally, running[t].read + 1)
        IN  /\ Before(t, "set")
            /\ IF Live(t, s)
               THEN WriteEntry(s, IF s.field = "" THEN tally
                                  ELSE [entry EXCEPT ![s.field] = tally])
               ELSE UNCHANGED varsStats
            /\ running' = [running EXCEPT ![t] =
                    [Past(t, 1) EXCEPT !.read = 0]]
            /\ UNCHANGED <<varsMem, source, embed, collection, call>>

\* add_interaction has returned and process_query returns its result
ProcessQueryReturn ==
    \E t \in Threads :
        LET w == running[t]
            generated == ResponseOf(w)
        IN  /\ Before(t, "return")
            /\ call' = [op |-> "process_query", thread |-> t,
                        query |-> w.query,
                        llm_failed |-> ~w.llm.ok, raised |-> FALSE,
                        error |-> "",
                        messages |-> generated.messages,
                        result |->
                            [query |-> w.query,
                             response |-> generated.response,
                             retrieved_chunks |-> w.retrieved_chunks,
                             language |-> detect_language(w.query),
                             context_used |-> w.document_context,
                             conversation_context |-> w.conversation_context]]
            /\ running' = [running EXCEPT ![t] = IdleThread]
            /\ UNCHANGED <<varsMem, varsStats, source, embed, collection>>

\* the turn an earlier process_query on an empty index left in the buffer
EarlierTurn(query, llm) ==
    [timestamp |-> 0, user_query |-> query,
     assistant_response |-> generate_response(query, <<>>, <<>>, llm).response,
     language |-> detect_language(query), retrieved_chunks |-> <<>>,
     session_id |-> SessionStamp(0)]

\* four earlier turns of a loaded session, pairwise different
History ==
    <<EarlierTurn(TxtStory, [ok |-> TRUE, text |-> "answer"]),
      EarlierTurn(TxtGolpo, [ok |-> FALSE, text |-> "timeout"]),
      EarlierTurn(TxtGolpo, [ok |-> TRUE, text |-> "answer"]),
      EarlierTurn(TxtStory, [ok |-> FALSE, text |-> "timeout"])>>

\* a memory manager whose buffer holds the first turns of that session;
\* appended counts the turns added from here on
DialogueInit ==
    /\ max_size = SHORT_TERM_MEMORY_SIZE
    /\ conversations \in {SubSeq(History, 1, n) : n \in {0, 1, Len(History)}}
    /\ now = 0
    /\ session_id = SessionStamp(0)
    /\ appended = <<>>

\* two request threads of a server that have entered process_query on that
\* memory manager, both asking for the conversation context
DialogueCalls ==
    {<<Entered(TxtStory, TRUE, Answer), Entered(TxtStory, TRUE, Answer)>>,
     <<Entered(TxtStory, TRUE, Answer), Entered(TxtGolpo, TRUE, Answer)>>}

\* a restarted application (empty buffer, the statistics of one earlier
\* interaction loaded) with two request threads that have entered
\* process_query
RaceInit ==
    /\ max_size = SHORT_TERM_MEMORY_SIZE
    /\ conversations = <<>>
    /\ now = 0
    /\ session_id = SessionStamp(0)
    /\ appended = <<>>
    /\ query_patterns = StatsAfterOne.query_patterns
    /\ document_access_frequency = StatsAfterOne.document_access_frequency
    /\ user_preferences = StatsAfterOne.user_preferences

\* the calls of the two threads: the query the statistics hold, twice, or
\* once beside a query in another language
RaceCalls ==
    {<<Entered(TxtGolpo, TRUE, Answer), Entered(TxtGolpo, FALSE, Answer)>>,
     <<Entered(TxtGolpo, TRUE, Answer), Entered(TxtStory, FALSE, Answer)>>}

\* both calls have returned
BothReturned ==
    /\ \A t \in Threads : running[t].pc = "idle"
    /\ Len(appended) = 2

----------------------------------------------------------------------------
(* The surroundings of the application *)

\* an index backend whose query results carry distances, the collection
\* present, no session file and no statistics file saved
EnvIdle ==
    /\ distances = TRUE
    /\ deleted = FALSE
    /\ session_files = <<>>
    /\ memory_file = NoFile

----------------------------------------------------------------------------
(* Specifications *)

InitMem == MemInit /\ StatsInit /\ LangIdle /\ StructIdle /\ IndexIdle /\ EnvIdle /\ NoneRunning
NextMem ==
    \/ (AddConversation /\ UNCHANGED <<varsStats, varsLang, varsStruct, varsIndex, varsEnv, running>>)
    \/ (clear_memory /\ UNCHANGED <<varsStats, varsLang, varsStruct, varsIndex, varsEnv, running>>)
    \/ (Tick /\ UNCHANGED <<varsStats, varsLang, varsStruct, varsIndex, varsEnv, running>>)
SpecMem == InitMem /\ [][NextMem]_vars

InitLang == LangInit /\ MemIdle /\ StatsInit /\ StructIdle /\ IndexIdle /\ EnvIdle /\ NoneRunning
NextLang ==
    \/ (DetectLanguage /\ UNCHANGED <<varsMem, varsStats, varsStruct, varsIndex, varsEnv, running>>)
    \/ (NextText /\ UNCHANGED <<varsMem, varsStats, varsStruct, varsIndex, varsEnv, running>>)
SpecLang == InitLang /\ [][NextLang]_vars

InitStruct == StructInit /\ MemIdle /\ StatsInit /\ LangIdle /\ IndexIdle /\ EnvIdle /\ NoneRunning
NextStruct ==
    \/ (Structure /\ UNCHANGED <<varsMem, varsStats, varsLang, varsIndex, varsEnv, running>>)
    \/ (NextDoc /\ UNCHANGED <<varsMem, varsStats, varsLang, varsIndex, varsEnv, running>>)
SpecStruct == InitStruct /\ [][NextStruct]_vars

InitIndex == IndexInit /\ MemIdle /\ StatsInit /\ LangIdle /\ StructIdle /\ EnvIdle /\ NoneRunning
NextIndex ==
    \/ (EditSource /\ UNCHANGED <<varsMem, varsStats, varsLang, varsStruct, varsEnv, running>>)
    \/ (InitializeKnowledgeBase /\ UNCHANGED <<varsMem, varsStats, varsLang, varsStruct, varsEnv, running>>)
    \/ (SimilaritySearch /\ UNCHANGED <<varsMem, varsStats, varsLang, varsStruct, varsEnv, running>>)
    \/ (RetrieveRelevantChunks /\ UNCHANGED <<varsMem, varsStats, varsLang, varsStruct, varsEnv, running>>)
    \/ (GetWordMeaning /\ UNCHANGED <<varsMem, varsStats, varsLang, varsStruct, varsEnv, running>>)
    \/ (Return /\ UNCHANGED <<varsMem, varsStats, varsLang, varsStruct, varsEnv, running>>)
SpecIndex == InitIndex /\ [][NextIndex]_vars

\* a conversation memory with its session files
InitSession ==
    /\ NoneRunning
    /\ SessionInit /\ StatsInit /\ LangIdle /\ StructIdle
    /\ source = DocBlankStory
    /\ embed = [t \in EmbedTexts |-> 0]
    /\ collection = <<>>
    /\ distances = TRUE
    /\ deleted = FALSE
    /\ memory_file = NoFile
NextSession ==
    \/ (AddSessionTurn /\ UNCHANGED <<varsStats, varsLang, varsStruct, distances, deleted, memory_file, running>>)
    \/ (ClearSession /\ UNCHANGED <<varsStats, varsLang, varsStruct, distances, deleted, memory_file, running>>)
    \/ (SaveSession /\ UNCHANGED <<varsStats, varsLang, varsStruct, distances, deleted, memory_file, running>>)
    \/ (LoadSession /\ UNCHANGED <<varsStats, varsLang, varsStruct, distances, deleted, memory_file, running>>)
    \/ (GetRecentConversations /\ UNCHANGED <<varsStats, varsLang, varsStruct, distances, deleted, memory_file, running>>)
    \/ (Return /\ UNCHANGED <<varsMem, varsStats, varsLang, varsStruct, varsEnv, running>>)
SpecSession == InitSession /\ [][NextSession]_vars

\* the chunks and rows of one index build
InitBuild == InitStruct
NextBuild ==
    \/ (PrepareDocuments /\ UNCHANGED <<varsMem, varsStats, varsLang, varsEnv, running>>)
    \/ (Return /\ UNCHANGED <<varsMem, varsStats, varsLang, varsStruct, varsEnv, running>>)
SpecBuild == InitBuild /\ [][NextBuild]_vars

\* character lookups on an index with a cast
InitCast == CastInit /\ MemIdle /\ StatsInit /\ LangIdle /\ StructIdle /\ EnvIdle /\ NoneRunning
NextCast ==
    \/ (InitializeKnowledgeBase /\ UNCHANGED <<varsMem, varsStats, varsLang, varsStruct, varsEnv, running>>)
    \/ (GetCharacterInfo /\ UNCHANGED <<varsMem, varsStats, varsLang, varsStruct, varsEnv, running>>)
    \/ (Return /\ UNCHANGED <<varsMem, varsStats, varsLang, varsStruct, varsEnv, running>>)
SpecCast == InitCast /\ [][NextCast]_vars

\* statistics and deletion on an index of up to MaxBulk + 1 entries
InitAdmin ==
    /\ NoneRunning
    /\ AdminInit /\ MemIdle /\ StatsInit /\ LangIdle /\ StructIdle
    /\ distances = TRUE
    /\ session_files = <<>>
    /\ memory_file = NoFile
NextAdmin ==
    \/ (ProcessAndStore /\ UNCHANGED <<varsMem, varsStats, varsLang, varsStruct, distances, session_files, memory_file, running>>)
    \/ (GetCollectionStats /\ UNCHANGED <<varsMem, varsStats, varsLang, varsStruct, distances, session_files, memory_file, running>>)
    \/ (DeleteCollection /\ UNCHANGED <<varsMem, varsStats, varsLang, varsStruct, distances, session_files, memory_file, running>>)
    \/ (Reopen /\ UNCHANGED <<varsMem, varsStats, varsLang, varsStruct, distances, session_files, memory_file, running>>)
    \/ (Return /\ UNCHANGED <<varsMem, varsStats, varsLang, varsStruct, varsEnv, running>>)
SpecAdmin == InitAdmin /\ [][NextAdmin]_vars

\* add_interaction calls on a memory manager that starts empty
InitInteract == InteractInit /\ LangIdle /\ StructIdle /\ IndexIdle /\ EnvIdle /\ NoneRunning
NextInteract ==
    \/ (AddInteraction /\ UNCHANGED <<varsLang, varsStruct, varsIndex, varsEnv, running>>)
    \/ (Tick /\ UNCHANGED <<varsStats, varsLang, varsStruct, varsIndex, varsEnv, running>>)
SpecInteract == InitInteract /\ [][NextInteract]_vars

\* every operation on the two memories of a memory manager
InitLedger ==
    /\ NoneRunning
    /\ LedgerInit /\ LangIdle /\ StructIdle /\ IndexIdle
    /\ distances = TRUE
    /\ deleted = FALSE
NextLedger ==
    \/ (LedgerInteraction /\ UNCHANGED <<varsLang, varsStruct, varsIndex, distances, deleted, running>>)
    \/ (LedgerTurn /\ UNCHANGED <<varsLang, varsStruct, varsIndex, distances, deleted, running>>)
    \/ (RecordQueryPattern /\ UNCHANGED <<varsLang, varsStruct, varsIndex, distances, deleted, running>>)
    \/ (RecordDocumentAccess /\ UNCHANGED <<varsLang, varsStruct, varsIndex, distances, deleted, running>>)
    \/ (UpdateUserPreferences /\ UNCHANGED <<varsLang, varsStruct, varsIndex, distances, deleted, running>>)
    \/ (LedgerClear /\ UNCHANGED <<varsLang, varsStruct, varsIndex, distances, deleted, running>>)
    \/ (SaveAllMemory /\ UNCHANGED <<varsLang, varsStruct, varsIndex, distances, deleted, running>>)
    \/ (SaveMemoryData /\ UNCHANGED <<varsLang, varsStruct, varsIndex, distances, deleted, running>>)
SpecLedger == InitLedger /\ [][NextLedger]_vars

\* queries in the middle of a dialogue
InitDialogue ==
    /\ running \in DialogueCalls
    /\ RagInit /\ DialogueInit /\ StatsInit /\ LangIdle /\ StructIdle /\ EnvIdle
    /\ source = DocBlankStory
    /\ embed = [t \in EmbedTexts |-> 0]
NextDialogue ==
    \/ (ReadConversationContext /\ UNCHANGED <<varsLang, varsStruct, varsEnv>>)
    \/ (SearchHistoryLoop /\ UNCHANGED <<varsLang, varsStruct, varsEnv>>)
    \/ (SuggestionsLoop /\ UNCHANGED <<varsLang, varsStruct, varsEnv>>)
    \/ (PreferredLanguageLoop /\ UNCHANGED <<varsLang, varsStruct, varsEnv>>)
    \/ (ProcessQueryRetrieve /\ UNCHANGED <<varsLang, varsStruct, varsEnv>>)
    \/ (ProcessQueryAnswered /\ UNCHANGED <<varsLang, varsStruct, varsEnv>>)
    \/ (AppendTurn /\ UNCHANGED <<varsLang, varsStruct, varsEnv>>)
    \/ (CheckKey /\ UNCHANGED <<varsLang, varsStruct, varsEnv>>)
    \/ (InsertEntry /\ UNCHANGED <<varsLang, varsStruct, varsEnv>>)
    \/ (FetchEntry /\ UNCHANGED <<varsLang, varsStruct, varsEnv>>)
    \/ (CountEntry /\ UNCHANGED <<varsLang, varsStruct, varsEnv>>)
    \/ (StampEntry /\ UNCHANGED <<varsLang, varsStruct, varsEnv>>)
    \/ (ReadTally /\ UNCHANGED <<varsLang, varsStruct, varsEnv>>)
    \/ (StoreTally /\ UNCHANGED <<varsLang, varsStruct, varsEnv>>)
    \/ (ProcessQueryReturn /\ UNCHANGED <<varsLang, varsStruct, varsEnv>>)
    \/ (Return /\ UNCHANGED <<varsMem, varsStats, varsLang, varsStruct, varsEnv, running>>)
SpecDialogue == InitDialogue /\ [][NextDialogue]_vars

\* two interleaved add_interaction calls
InitRace ==
    /\ running \in RaceCalls
    /\ RagInit /\ RaceInit /\ LangIdle /\ StructIdle /\ EnvIdle
    /\ source = DocStoryGlossary
    /\ embed = [t \in EmbedTexts |-> 0]
NextRace ==
    \/ (ReadConversationContext /\ UNCHANGED <<varsLang, varsStruct, varsEnv>>)
    \/ (SearchHistoryLoop /\ UNCHANGED <<varsLang, varsStruct, varsEnv>>)
    \/ (SuggestionsLoop /\ UNCHANGED <<varsLang, varsStruct, varsEnv>>)
    \/ (PreferredLanguageLoop /\ UNCHANGED <<varsLang, varsStruct, varsEnv>>)
    \/ (ProcessQueryRetrieve /\ UNCHANGED <<varsLang, varsStruct, varsEnv>>)
    \/ (ProcessQueryAnswered /\ UNCHANGED <<varsLang, varsStruct, varsEnv>>)
    \/ (AppendTurn /\ UNCHANGED <<varsLang, varsStruct, varsEnv>>)
    \/ (CheckKey /\ UNCHANGED <<varsLang, varsStruct, varsEnv>>)
    \/ (InsertEntry /\ UNCHANGED <<varsLang, varsStruct, varsEnv>>)
    \/ (FetchEntry /\ UNCHANGED <<varsLang, varsStruct, varsEnv>>)
    \/ (CountEntry /\ UNCHANGED <<varsLang, varsStruct, varsEnv>>)
    \/ (StampEntry /\ UNCHANGED <<varsLang, varsStruct, varsEnv>>)
    \/ (ReadTally /\ UNCHANGED <<varsLang, varsStruct, varsEnv>>)
    \/ (StoreTally /\ UNCHANGED <<varsLang, varsStruct, varsEnv>>)
    \/ (ProcessQueryReturn /\ UNCHANGED <<varsLang, varsStruct, varsEnv>>)
    \/ (Return /\ UNCHANGED <<varsMem, varsStats, varsLang, varsStruct, varsEnv, running>>)
SpecRace == InitRace /\ [][NextRace]_vars

\* the cross-language rewrite of queries
InitTranslate ==
    /\ NoneRunning
    /\ TranslateInit /\ MemIdle /\ StatsInit /\ StructIdle /\ EnvIdle
    /\ source = DocBlankStory
    /\ embed = [t \in EmbedTexts |-> 0]
    /\ collection = <<>>
NextTranslate ==
    \/ (TranslateQuery /\ UNCHANGED <<varsMem, varsStats, varsStruct, source, embed, collection, varsEnv, running>>)
    \/ (ExtendQuery /\ UNCHANGED <<varsMem, varsStats, varsStruct, source, embed, collection, varsEnv, running>>)
    \/ (TranslateReturn /\ UNCHANGED <<varsMem, varsStats, varsStruct, source, embed, collection, varsEnv, running>>)
SpecTranslate == InitTranslate /\ [][NextTranslate]_vars

\* the cleaning of typed text
InitClean ==
    /\ NoneRunning
    /\ CleanInit /\ MemIdle /\ StatsInit /\ StructIdle /\ EnvIdle
    /\ source = DocBlankStory
    /\ embed = [t \in EmbedTexts |-> 0]
    /\ collection = <<>>
NextClean ==
    \/ (TypeCharacter /\ UNCHANGED <<varsMem, varsStats, varsStruct, source, embed, collection, varsEnv, running>>)
    \/ (CleanText /\ UNCHANGED <<varsMem, varsStats, varsStruct, source, embed, collection, varsEnv, running>>)
    \/ (CleanAgain /\ UNCHANGED <<varsMem, varsStats, varsStruct, source, embed, collection, varsEnv, running>>)
    \/ (CleanReturn /\ UNCHANGED <<varsMem, varsStats, varsStruct, source, embed, collection, varsEnv, running>>)
SpecClean == InitClean /\ [][NextClean]_vars

\* query suggestions from the recorded query patterns
InitSuggest ==
    /\ NoneRunning
    /\ SuggestInit /\ LangIdle /\ StructIdle /\ EnvIdle
    /\ max_size = SHORT_TERM_MEMORY_SIZE
    /\ conversations = <<>>
    /\ session_id = SessionStamp(0)
    /\ appended = <<>>
    /\ source = DocBlankStory
    /\ embed = [t \in EmbedTexts |-> 0]
    /\ collection = <<>>
NextSuggest ==
    \/ (RecordQuery /\ UNCHANGED <<max_size, conversations, session_id, appended, source, embed, collection, varsLang, varsStruct, varsEnv, running>>)
    \/ (GetQuerySuggestions /\ UNCHANGED <<max_size, conversations, session_id, appended, source, embed, collection, varsLang, varsStruct, varsEnv, running>>)
    \/ (SuggestReturn /\ UNCHANGED <<max_size, conversations, session_id, appended, source, embed, collection, varsLang, varsStruct, varsEnv, running>>)
SpecSuggest == InitSuggest /\ [][NextSuggest]_vars

\* the start of the application over the statistics file on disk
InitStartup ==
    /\ NoneRunning
    /\ MemIdle /\ StatsInit /\ LangIdle /\ StructIdle /\ IndexIdle
    /\ distances = TRUE
    /\ deleted = FALSE
    /\ session_files = <<>>
    /\ memory_file \in StatFiles
NextStartup ==
    \/ (Startup /\ UNCHANGED <<varsLang, varsStruct, running>>)
    \/ (ReplaceFile /\ UNCHANGED <<varsLang, varsStruct, running>>)
    \/ (Tick /\ UNCHANGED <<varsStats, varsLang, varsStruct, varsIndex, varsEnv, running>>)
    \/ (Return /\ UNCHANGED <<varsMem, varsStats, varsLang, varsStruct, varsEnv, running>>)
SpecStartup == InitStartup /\ [][NextStartup]_vars

\* searches on an index whose backend may or may not put distances into
\* its query results
SearchInit ==
    /\ source \in IndexDocs
    /\ embed \in RagEmbeds
    /\ collection = <<>>
    /\ call = IdleCall
    /\ distances \in BOOLEAN
    /\ deleted = FALSE
    /\ session_files = <<>>
    /\ memory_file = NoFile

InitSearch == SearchInit /\ MemIdle /\ StatsInit /\ LangIdle /\ StructIdle /\ NoneRunning
NextSearch ==
    \/ (InitializeKnowledgeBase /\ UNCHANGED <<varsMem, varsStats, varsLang, varsStruct, varsEnv, running>>)
    \/ (SimilaritySearch /\ UNCHANGED <<varsMem, varsStats, varsLang, varsStruct, varsEnv, running>>)
    \/ (SearchByType /\ UNCHANGED <<varsMem, varsStats, varsLang, varsStruct, varsEnv, running>>)
    \/ (RetrieveRelevantChunks /\ UNCHANGED <<varsMem, varsStats, varsLang, varsStruct, varsEnv, running>>)
    \/ (Return /\ UNCHANGED <<varsMem, varsStats, varsLang, varsStruct, varsEnv, running>>)
SpecSearch == InitSearch /\ [][NextSearch]_vars

\* the application answering queries: MemoryManager() with the default
\* capacity and fresh statistics over a built index
InitRag ==
    /\ RagInit /\ MemIdle /\ StatsInit /\ LangIdle /\ StructIdle /\ EnvIdle
    /\ running = <<IdleThread>>
NextRag ==
    \/ (ProcessQuery /\ UNCHANGED <<varsLang, varsStruct, varsEnv>>)
    \/ (ReadConversationContext /\ UNCHANGED <<varsLang, varsStruct, varsEnv>>)
    \/ (SearchHistoryLoop /\ UNCHANGED <<varsLang, varsStruct, varsEnv>>)
    \/ (SuggestionsLoop /\ UNCHANGED <<varsLang, varsStruct, varsEnv>>)
    \/ (PreferredLanguageLoop /\ UNCHANGED <<varsLang, varsStruct, varsEnv>>)
    \/ (ProcessQueryRetrieve /\ UNCHANGED <<varsLang, varsStruct, varsEnv>>)
    \/ (ProcessQueryAnswered /\ UNCHANGED <<varsLang, varsStruct, varsEnv>>)
    \/ (AppendTurn /\ UNCHANGED <<varsLang, varsStruct, varsEnv>>)
    \/ (CheckKey /\ UNCHANGED <<varsLang, varsStruct, varsEnv>>)
    \/ (InsertEntry /\ UNCHANGED <<varsLang, varsStruct, varsEnv>>)
    \/ (FetchEntry /\ UNCHANGED <<varsLang, varsStruct, varsEnv>>)
    \/ (CountEntry /\ UNCHANGED <<varsLang, varsStruct, varsEnv>>)
    \/ (StampEntry /\ UNCHANGED <<varsLang, varsStruct, varsEnv>>)
    \/ (ReadTally /\ UNCHANGED <<varsLang, varsStruct, varsEnv>>)
    \/ (StoreTally /\ UNCHANGED <<varsLang, varsStruct, varsEnv>>)
    \/ (ProcessQueryReturn /\ UNCHANGED <<varsLang, varsStruct, varsEnv>>)
    \/ (Return /\ UNCHANGED <<varsMem, varsStats, varsLang, varsStruct, varsEnv, running>>)
SpecRag == InitRag /\ [][NextRag]_vars

----------------------------------------------------------------------------
(* Claims *)

\* C1: the buffer holds exactly min(appends since the last clear, max_size)
\* turns, and they are the most recently appended turns in append order
C1_FifoBuffer ==
    /\ Len(conversations) = Min(Len(appended), max_size)
    /\ conversations = LastN(appended, max_size)

\* C1 witness: max_size + 1 turns were appended and the first one is evicted
C1_Witness ==
    /\ max_size >= 2
    /\ Len(appended) = max_size + 1
    /\ Len(conversations) = max_size
    /\ appended[1] # appended[2]
    /\ conversations[1] = appended[2]

\* whether the primary search of the last retrieve call asks for the fallback
PrimaryIsPoor ==
    /\ call.op = "retrieve"
    /\ ~call.searches[1].raised
    /\ \/ call.searches[1].results = <<>>
       \/ call.searches[1].results[1].distance > FallbackThreshold

\* C2: when the primary search (with the rewritten query) returns nothing or
\* a first result farther than 0.8, a second search is issued with the
\* normalized, unrewritten query and its result sequence is what is returned
C2_FallbackSearch ==
    PrimaryIsPoor =>
        /\ call.searches[1].query
                = translate_query_if_needed(clean_text(call.query), "bn")
        /\ Len(call.searches) = 2
        /\ call.searches[2].query = clean_text(call.query)
        /\ call.searches[2].k = call.k
        /\ call.searches[2].where = <<>>
        /\ call.searches[2].results
                = similarity_search(collection, embed, clean_text(call.query),
                                    call.k, <<>>).results
        /\ call.raised = call.searches[2].raised
        /\ call.result = call.searches[2].results

\* C2 witness: a rewritten query whose best primary result is farther than
\* 0.8, and the differing results of the second search were returned
C2_Witness ==
    /\ call.op = "retrieve"
    /\ Len(call.searches) = 2
    /\ call.searches[1].query # call.searches[2].query
    /\ call.searches[1].results # <<>>
    /\ call.searches[1].results[1].distance > FallbackThreshold
    /\ call.searches[2].results # call.searches[1].results
    /\ call.result = call.searches[2].results

BengaliCount == CountMatches(bengali_pattern, langText)
EnglishCount == CountMatches(english_pattern, langText)

\* C3 as stated: every tie between the Bengali and the Latin count (zero or
\* not) yields 'bn', and 'en' is returned only when Latin letters strictly
\* outnumber Bengali characters
C3_TieIsBengali ==
    langResult # "none" =>
        /\ (BengaliCount = EnglishCount => langResult = "bn")
        /\ (langResult = "en" => EnglishCount > BengaliCount)

\* C3 amended: 'en' is returned exactly when there is at least one Latin
\* letter and Bengali characters do not strictly outnumber Latin letters (so
\* a non-zero tie is English); 'bn' is returned in every other case
C3_LanguageRule ==
    langResult # "none" =>
        /\ langResult \in {"bn", "en"}
        /\ (langResult = "en") = (EnglishCount > 0 /\ EnglishCount >= BengaliCount)

\* C3 witness: a tie with non-zero counts was classified
C3_Witness ==
    /\ langResult = "en"
    /\ BengaliCount = EnglishCount
    /\ BengaliCount > 0

\* the types of the chunks the present source keys are structured into
PresentTypes(doc) == {ChunkTypeOf[k] : k \in doc.present \ {"author_info"}}

\* C4: structuring produces chunks only for the categories present, and as
\* many chunks as the source document has logical items
C4_ChunkPerItem ==
    structured =>
        /\ \A i \in 1..Len(structChunks) :
                structChunks[i].type \in PresentTypes(structDoc)
        /\ Len(structChunks) = SourceItemCount(structDoc)

\* C5: every entry of the index has a non-empty content
C5_StoredContentNonEmpty ==
    \A i \in 1..Len(collection) : collection[i].document # <<>>

\* the rows a build of the current knowledge base file prepares
SourceRows == PrepareRows(create_searchable_chunks(preprocess_json_content(source)))

\* C6: after an index build the collection holds exactly one entry per chunk
\* id of the corpus, carrying the newly built content and metadata
C6_BuildReplaces ==
    (call.op = "build" /\ ~call.raised) =>
        /\ Len(collection) = Len(SourceRows)
        /\ \A n \in 1..Len(SourceRows) :
                \E i \in 1..Len(collection) :
                    /\ collection[i].id = SourceRows[n].id
                    /\ collection[i].document = SourceRows[n].document
                    /\ collection[i].metadata = SourceRows[n].metadata

\* whether word is the word of a glossary entry of the index
IsGlossaryWord(word) ==
    \E i \in 1..Len(collection) :
        /\ collection[i].metadata.type = "word_meaning"
        /\ collection[i].metadata.word = word

\* C7: the word-meaning lookup of a word that is no glossary entry returns
\* an empty result sequence
C7_UnknownWordGivesEmpty ==
    (call.op = "word_meaning" /\ ~IsGlossaryWord(call.query)) =>
        (~call.raised /\ call.result = <<>>)

\* results in non-decreasing distance
BestFirst(results) ==
    \A i \in 1..(Len(results) - 1) : results[i].distance <= results[i + 1].distance

\* C8: similarity_search and retrieve_relevant_chunks (on the primary and on
\* the fallback path) return at most k results, in non-decreasing distance
C8_AtMostKBestFirst ==
    (call.op \in {"search", "retrieve"} /\ ~call.raised) =>
        /\ Len(call.result) <= call.k
        /\ BestFirst(call.result)

\* C8 witness: the fallback path returned exactly k of more than k entries,
\* at different distances
C8_Witness ==
    /\ call.op = "retrieve"
    /\ ~call.raised
    /\ Len(call.searches) = 2
    /\ call.k = 2
    /\ Len(collection) > call.k
    /\ Len(call.result) = call.k
    /\ call.result[1].distance < call.result[2].distance

\* C9: when the model call fails during process_query, process_query does
\* not raise and returns the complete response structure, whose response is
\* the apology, in English when the query is detected as English and in
\* Bengali otherwise
C9_GenerationFailureApology ==
    (call.op = "process_query" /\ call.llm_failed) =>
        /\ ~call.raised
        /\ DOMAIN call.result
                = {"query", "response", "retrieved_chunks", "language",
                   "context_used", "conversation_context"}
        /\ call.result.query = call.query
        /\ call.result.language = detect_language(call.query)
        /\ call.result.response[1]
                = (IF detect_language(call.query) = "en"
                   THEN ApologyEn ELSE ApologyBn)

\* C9 witness: a failed model call on an English query with retrieved
\* chunks was answered with the English apology
C9_Witness ==
    /\ call.op = "process_query"
    /\ call.llm_failed
    /\ ~call.raised
    /\ call.result.language = "en"
    /\ call.result.retrieved_chunks # <<>>
    /\ call.result.response[1] = ApologyEn
    /\ conversations # <<>>
    /\ conversations[Len(conversations)].assistant_response
            = call.result.response

\* C10: a search with an empty query string, or with k <= 0 or k larger than
\* the number of indexed entries, returns an empty sequence and raises nothing
C10_BadQueryGivesEmpty ==
    (/\ call.op \in {"search", "retrieve"}
     /\ (call.query = <<>> \/ call.k <= 0 \/ call.k > Len(collection))) =>
        (~call.raised /\ call.result = <<>>)

\* whether no entry of the index satisfies the filter of the last search
NothingMatches ==
    \A i \in 1..Len(collection) :
        ~MatchesWhere(collection[i].metadata, call.where)

\* C11: a search with k >= 1 on an empty index, or with a metadata filter
\* no entry satisfies, returns an empty sequence and raises nothing
C11_EmptyNotError ==
    (/\ call.op \in {"search", "search_by_type"}
     /\ call.k >= 1
     /\ NothingMatches) =>
        (~call.raised /\ call.result = <<>>)

\* C11 witness: search_by_type for a type with no stored chunks, on an index
\* that holds chunks of another type, returned the empty sequence
C11_Witness ==
    /\ call.op = "search_by_type"
    /\ call.k >= 1
    /\ collection # <<>>
    /\ NothingMatches
    /\ ~call.raised
    /\ call.result = <<>>

\* C12: when the index returns results without distances, similarity_search
\* reports the distance of every result as an explicit null, and
\* retrieve_relevant_chunks, given such a first result, does not raise and
\* returns the results of one of its searches
C12_MissingDistanceExplicit ==
    /\ (/\ call.op \in {"search", "search_by_type"}
        /\ ~distances
        /\ ~call.raised) =>
            \A n \in 1..Len(call.result) : call.result[n].distance = None
    /\ (/\ call.op = "retrieve"
        /\ ~distances
        /\ call.k >= 1
        /\ call.searches[1].results # <<>>) =>
            /\ ~call.raised
            /\ call.result = call.searches[Len(call.searches)].results

\* C13: a load_session of a saved file restores the session id and the
\* sequence of turns (order and field values) the memory had when the file
\* was saved
C13_SessionRoundTrip ==
    (call.op = "load_session" /\ ~call.raised) =>
        LET at_save == DictGet(session_files, call.path).at_save
        IN  /\ session_id = at_save.session_id
            /\ conversations = at_save.conversations

\* C13 witness: a session with a turn that has retrieved chunks was saved,
\* the memory was cleared under another session id, and the load restored
\* the saved session
C13_Witness ==
    /\ call.op = "load_session"
    /\ ~call.raised
    /\ session_id = SessionStamp(0)
    /\ SessionStamp(0) # SessionStamp(MaxTime)
    /\ Len(conversations) >= 2
    /\ \E i \in 1..Len(conversations) : conversations[i].retrieved_chunks # <<>>
    /\ appended = <<>>

\* C14: when the statistics file is absent, unreadable or malformed,
\* MemoryManager construction raises nothing and leaves the three
\* statistics maps empty
C14_LoadLeavesEmpty ==
    (call.op = "startup" /\ ~call.well_formed) =>
        /\ ~call.raised
        /\ call.sized
        /\ query_patterns = <<>>
        /\ document_access_frequency = <<>>
        /\ user_preferences = <<>>

\* the position of the last underscore of an id, 0 when it has none
LastUnderscore(id) ==
    LET at == {i \in 1..Len(id) : id[i] = "_"}
    IN  IF at = {} THEN 0 ELSE CHOOSE i \in at : \A j \in at : j <= i

\* the part of an id before its last underscore and the part after it
IdPrefix(id) == SubSeq(id, 1, LastUnderscore(id) - 1)
IdOrdinal(id) == SubSeq(id, LastUnderscore(id) + 1, Len(id))

\* the number a text of decimal digits denotes
RECURSIVE DecimalValue(_)
DecimalValue(text) ==
    IF text = <<>> THEN 0
    ELSE 10 * DecimalValue(SubSeq(text, 1, Len(text) - 1))
         + (CHOOSE d \in 0..9 : DecimalDigits[d + 1] = text[Len(text)])

\* a non-empty text of decimal digits without a leading zero
IsOrdinal(text) ==
    /\ text # <<>>
    /\ \A i \in 1..Len(text) : \E d \in 1..10 : DecimalDigits[d] = text[i]
    /\ Len(text) > 1 => text[1] # "0"

\* C16: every row of one index build has an id "<type>_<ordinal>" whose
\* prefix is the type of the row's metadata and of its chunk and whose
\* ordinal is the chunk's position counted from 0; the id equals the doc_id
\* of the metadata and differs from the id of every other row
C16_IdsWellFormed ==
    structured =>
        /\ Len(structRows) = Len(structChunks)
        /\ \A i \in 1..Len(structRows) :
                LET row == structRows[i]
                IN  /\ LastUnderscore(row.id) > 0
                    /\ row.metadata.type = structChunks[i].type
                    /\ IdPrefix(row.id) = TypeText(row.metadata.type)
                    /\ IsOrdinal(IdOrdinal(row.id))
                    /\ DecimalValue(IdOrdinal(row.id)) = i - 1
                    /\ row.id = row.metadata.doc_id
                    /\ \A j \in 1..Len(structRows) :
                            j # i => structRows[j].id # row.id

\* C16 witness: a build of more than ten rows, two of them of one type
C16_Witness ==
    /\ structured
    /\ Len(structRows) > 10
    /\ \E i, j \in 1..Len(structRows) :
            i # j /\ structRows[i].metadata.type = structRows[j].metadata.type

\* the declared sequence of the categories
TypeRank(type) ==
    CASE type = "story" -> 1
      [] type = "mcq" -> 2
      [] type = "creative" -> 3
      [] type = "word_meaning" -> 4
      [] type = "character" -> 5

\* the chunks of one type, in the order they have in chunks
OfType(chunks, type) == SelectSeq(chunks, LAMBDA c : c.type = type)

\* a sequence without the repetitions of its earlier elements
RECURSIVE FirstOccurrences(_)
FirstOccurrences(seq) ==
    IF seq = <<>> THEN <<>>
    ELSE LET front == FirstOccurrences(SubSeq(seq, 1, Len(seq) - 1))
             last == seq[Len(seq)]
         IN  IF \E i \in 1..Len(front) : front[i] = last
             THEN front ELSE Append(front, last)

\* the items of the source document in document order, per category, each
\* named by what identifies it: a story section by its number, a question
\* by category and number, a creative question by its number, a glossary
\* entry by section and cleaned word, a character by category and name
SourceStory(doc) == [i \in 1..Len(doc.story_text) |-> doc.story_text[i].section]
SourceMcq(doc) ==
    Flatten([g \in 1..Len(doc.mcq_questions) |->
        [i \in 1..Len(doc.mcq_questions[g][2]) |->
            <<doc.mcq_questions[g][1],
              doc.mcq_questions[g][2][i].question_number>>]])
SourceCreative(doc) ==
    [i \in 1..Len(doc.creative_questions) |->
        doc.creative_questions[i].question_number]
SourceGlossary(doc) ==
    Flatten([g \in 1..Len(doc.word_meanings) |->
        FirstOccurrences(
            [i \in 1..Len(doc.word_meanings[g][2]) |->
                <<doc.word_meanings[g][1],
                  clean_text(doc.word_meanings[g][2][i][1])>>])])
SourceCharacters(doc) ==
    Flatten([g \in 1..Len(doc.characters_detailed) |->
        [i \in 1..Len(doc.characters_detailed[g][2]) |->
            <<doc.characters_detailed[g][1],
              doc.characters_detailed[g][2][i][1]>>]])

\* the ids of a sequence of rows
IdsOf(rows) == [i \in 1..Len(rows) |-> rows[i].id]

\* C17: the chunks of a structured document come by category in the order
\* story, mcq, creative, word_meaning, character, the chunks of each
\* category in the order of their items in the source document, and
\* structuring the document once more gives the same sequence of ids
C17_FixedOrder ==
    structured =>
        LET story == OfType(structChunks, "story")
            mcq == OfType(structChunks, "mcq")
            creative == OfType(structChunks, "creative")
            glossary == OfType(structChunks, "word_meaning")
            characters == OfType(structChunks, "character")
        IN  /\ \A i \in 1..(Len(structChunks) - 1) :
                    TypeRank(structChunks[i].type)
                        <= TypeRank(structChunks[i + 1].type)
            /\ [i \in 1..Len(story) |-> story[i].section] = SourceStory(structDoc)
            /\ [i \in 1..Len(mcq) |->
                    <<mcq[i].metadata.category, mcq[i].metadata.question_number>>]
                    = SourceMcq(structDoc)
            /\ [i \in 1..Len(creative) |-> creative[i].metadata.question_number]
                    = SourceCreative(structDoc)
            /\ [i \in 1..Len(glossary) |->
                    <<glossary[i].metadata.section, glossary[i].word>>]
                    = SourceGlossary(structDoc)
            /\ [i \in 1..Len(characters) |->
                    <<characters[i].metadata.category,
                      characters[i].character_name>>]
                    = SourceCharacters(structDoc)
            /\ IdsOf(structRows)
                    = IdsOf(PrepareRows(create_searchable_chunks(
                                            preprocess_json_content(structDoc))))

\* C17 witness: a structured document with at least two chunks of each of
\* the five categories
C17_Witness ==
    /\ structured
    /\ \A type \in {"story", "mcq", "creative", "word_meaning", "character"} :
            Len(OfType(structChunks, type)) >= 2

\* the number of entries of the index of a type
CountOfType(type) ==
    Cardinality({i \in 1..Len(collection) : collection[i].metadata.type = type})

\* C18: a character lookup raises nothing and returns the results of the
\* character-filtered search with k = 5 followed by the results of the
\* story-filtered search with k = 3: the nearest min(5, characters stored)
\* character entries, then the nearest min(3, sections stored) story
\* entries, each part nearest first
C18_CharactersThenStory ==
    call.op = "character" =>
        LET n == Min(5, CountOfType("character"))
            m == Min(3, CountOfType("story"))
        IN  /\ ~call.raised
            /\ Len(call.result) = n + m
            /\ \A i \in 1..n : call.result[i].metadata.type = "character"
            /\ \A i \in (n + 1)..(n + m) : call.result[i].metadata.type = "story"
            /\ BestFirst(SubSeq(call.result, 1, n))
            /\ BestFirst(SubSeq(call.result, n + 1, n + m))
            /\ call.result
                    = similarity_search(collection, embed, call.query, 5,
                                        <<<<"type", "character">>>>).results
                      \o similarity_search(collection, embed, call.query, 3,
                                           <<<<"type", "story">>>>).results

\* C18 witness: a lookup on an index of more than five characters and more
\* than three story sections that returns eight results, the first story
\* result nearer than the last character result
C18_Witness ==
    /\ call.op = "character"
    /\ CountOfType("character") > 5
    /\ CountOfType("story") > 3
    /\ Len(call.result) = 8
    /\ call.result[6].distance < call.result[5].distance

\* the count a dict of counts gives for a key, 0 when it has no such key
CountIn(d, k) == IF DictHas(d, k) THEN DictGet(d, k) ELSE 0

\* the chunk types and 'unknown'
StatTypes == {"story", "mcq", "creative", "word_meaning", "character", "unknown"}

\* C19: get_collection_stats reports the number of stored entries as
\* total_documents and in content_types the types of the first
\* min(100, total) entries: the counts sum to min(100, total), no count is 0,
\* with at most 100 entries each count is the number of stored entries of
\* the type, and an empty index gives empty content_types
C19_StatsSampled ==
    (call.op = "stats" /\ ~call.raised) =>
        LET total == call.result.total_documents
            counts == call.result.content_types
            sampled == Min(100, total)
        IN  /\ total = Len(collection)
            /\ SumValues(counts) = sampled
            /\ \A i \in 1..Len(counts) :
                    counts[i][1] \in StatTypes /\ counts[i][2] > 0
            /\ \A type \in StatTypes :
                    CountIn(counts, type)
                        = Cardinality({i \in 1..sampled :
                                        collection[i].metadata.type = type})
            /\ total <= 100 =>
                    \A type \in StatTypes \ {"unknown"} :
                        CountIn(counts, type) = CountOfType(type)
            /\ total = 0 => counts = <<>>

\* C19 witness: statistics of an index of more than 100 entries whose
\* sample misses a type that is stored
C19_Witness ==
    /\ call.op = "stats"
    /\ ~call.raised
    /\ call.result.total_documents > 100
    /\ CountOfType("word_meaning") > 0
    /\ ~DictHas(call.result.content_types, "word_meaning")

\* C20: a delete_collection called when the collection is already absent
\* raises nothing and leaves the store as the first call left it: the
\* collection absent, nothing stored
C20_DeleteIdempotent ==
    [][(call.op = "idle" /\ call'.op = "delete" /\ deleted) =>
            /\ ~call'.raised
            /\ deleted' = deleted
            /\ collection' = collection
            /\ source' = source]_vars

\* C20 witness: a delete_collection has returned that found the collection
\* already absent
C20_Witness ==
    /\ call.op = "delete"
    /\ call.absent
    /\ deleted

\* C15: get_recent_conversations(n) with n >= 0 returns exactly the
\* min(n, number of stored turns) most recent turns in chronological order
C15_RecentClamped ==
    call.op = "recent" =>
        /\ Len(call.result) = Min(call.n, Len(conversations))
        /\ call.result = LastN(conversations, call.n)

\* the number of retrieved chunks of a sequence of turns
RECURSIVE ChunkTotal(_)
ChunkTotal(turns) ==
    IF turns = <<>> THEN 0
    ELSE Len(Head(turns).retrieved_chunks) + ChunkTotal(Tail(turns))

\* a tally of the preferences, empty when it has not been started
Preference(name) ==
    IF DictHas(user_preferences, name) THEN DictGet(user_preferences, name)
    ELSE <<>>

\* C21: after any sequence of add_interaction calls on an empty memory the
\* query-pattern counts, the language tallies and the topic tallies each
\* sum to the number of calls, the document-access counts sum to the
\* number of retrieved chunks passed in, and every query pattern's count
\* is the sum of its per-language counts
C21_StoresInStep ==
    /\ SumCounts(query_patterns) = Len(appended)
    /\ SumValues(Preference("language_preference")) = Len(appended)
    /\ SumValues(Preference("topic_preference")) = Len(appended)
    /\ SumCounts(document_access_frequency) = ChunkTotal(appended)
    /\ \A i \in 1..Len(query_patterns) :
            query_patterns[i][2].count = SumValues(query_patterns[i][2].languages)

\* C21 witness: three or more calls, a query asked in two languages and
\* a document retrieved more than once
C21_Witness ==
    /\ Len(appended) >= 3
    /\ \E i \in 1..Len(query_patterns) : Len(query_patterns[i][2].languages) = 2
    /\ \E i \in 1..Len(document_access_frequency) :
            document_access_frequency[i][2].count > 1

\* every key of the tally before is a key of the tally after, with a value
\* that is not smaller
TallyKept(before, after) ==
    \A i \in 1..Len(before) :
        /\ DictHas(after, before[i][1])
        /\ DictGet(after, before[i][1]) >= before[i][2]

\* C22: no step of the memory manager (add_interaction, the record and
\* update calls, appends that evict, clear_memory, saving) removes a key of
\* the query patterns, the document accesses or the preference tallies or
\* lowers a recorded count
C22_NoEviction ==
    [][/\ \A i \in 1..Len(query_patterns) :
            /\ DictHas(query_patterns', query_patterns[i][1])
            /\ DictGet(query_patterns', query_patterns[i][1]).count
                    >= query_patterns[i][2].count
            /\ TallyKept(query_patterns[i][2].languages,
                         DictGet(query_patterns', query_patterns[i][1]).languages)
            /\ TallyKept(query_patterns[i][2].common_doc_types,
                         DictGet(query_patterns', query_patterns[i][1]).common_doc_types)
       /\ \A i \in 1..Len(document_access_frequency) :
            /\ DictHas(document_access_frequency', document_access_frequency[i][1])
            /\ DictGet(document_access_frequency',
                       document_access_frequency[i][1]).count
                    >= document_access_frequency[i][2].count
       /\ \A i \in 1..Len(user_preferences) :
            /\ DictHas(user_preferences', user_preferences[i][1])
            /\ TallyKept(user_preferences[i][2],
                         DictGet(user_preferences', user_preferences[i][1]))
      ]_vars

\* C22 witness: statistics are recorded and the session and the statistics
\* are saved while the full buffer has evicted a turn for an appended one
C22_Witness ==
    /\ Len(conversations) = max_size
    /\ appended # <<>>
    /\ query_patterns # <<>>
    /\ document_access_frequency # <<>>
    /\ Len(Preference("language_preference")) = 2
    /\ session_files # <<>>
    /\ memory_file.kind = "pickle"

\* the recorded queries that qualify as suggestions for a partial query
Qualifying(partial_query) ==
    {query_patterns[i][1] : i \in
        {i \in 1..Len(query_patterns) :
            /\ IsSubstring(LowerText(partial_query), query_patterns[i][1])
            /\ query_patterns[i][2].count > 1}}

\* C23: get_query_suggestions(partial, limit) returns min(limit, number of
\* qualifying queries) distinct recorded queries, each containing the
\* lower-cased partial text and recorded more than once, in non-increasing
\* order of count, and no qualifying query left out has a higher count than
\* a returned one
C23_SuggestionsRanked ==
    call.op = "suggest" =>
        LET result == call.result
            count(query) == DictGet(query_patterns, query).count
        IN  /\ Len(result) = Min(call.limit, Cardinality(Qualifying(call.partial)))
            /\ \A i \in 1..Len(result) : result[i] \in Qualifying(call.partial)
            /\ \A i, j \in 1..Len(result) : i # j => result[i] # result[j]
            /\ \A i \in 1..(Len(result) - 1) : count(result[i]) >= count(result[i + 1])
            /\ \A query \in Qualifying(call.partial) \ Range(result) :
                    \A i \in 1..Len(result) : count(query) <= count(result[i])

\* C23 witness: two queries qualify for an upper-case partial text, the one
\* recorded last has the higher count, and the one suggestion asked for is
\* that query
C23_Witness ==
    /\ call.op = "suggest"
    /\ call.partial = <<"S", "T", "O">>
    /\ call.limit = 1
    /\ Cardinality(Qualifying(call.partial)) = 2
    /\ Len(call.result) = 1
    /\ call.result[1] = query_patterns[Len(query_patterns)][1]
    /\ query_patterns[Len(query_patterns)][2].count > query_patterns[1][2].count
    /\ query_patterns[1][2].count > 1

\* the words of a text: its maximal runs of word characters and of other
\* characters, in order
WordsOf(text) ==
    LET starts == {i \in 1..Len(text) :
                      i = 1 \/ IsWordChar(text[i]) # IsWordChar(text[i - 1])}
        ends == {i \in 1..Len(text) :
                      i = Len(text) \/ IsWordChar(text[i]) # IsWordChar(text[i + 1])}
        nth(k) == CHOOSE i \in starts : Cardinality({j \in starts : j < i}) = k - 1
        stop(i) == CHOOSE e \in ends : e >= i /\ \A f \in ends : f >= i => e <= f
    IN  [k \in 1..Cardinality(starts) |-> SubSeq(text, nth(k), stop(nth(k)))]

\* a word with its Bengali counterpart in place of it when it is a table
\* term in any letter case
Gloss(word) ==
    LET hits == {n \in 1..Len(translation_map) :
                    LowerText(translation_map[n][1]) = LowerText(word)}
    IN  IF hits = {} THEN word
        ELSE translation_map[CHOOSE n \in hits : \A m \in hits : n <= m][2]

\* C24: translate_query_if_needed returns a query detected as Bengali
\* unchanged, and for a query detected as English returns its words in the
\* original order with every table term, in any letter case, replaced by
\* its Bengali counterpart and every other word unchanged
C24_WordByWordGloss ==
    call.op = "translate" =>
        IF detect_language(langText) = "bn"
        THEN call.result = langText
        ELSE call.result =
                Flatten([k \in 1..Len(WordsOf(langText)) |->
                            Gloss(WordsOf(langText)[k])])

\* C24 witness: an English query with a table term in mixed case and a word
\* that is not in the table has been rewritten
C24_Witness ==
    /\ call.op = "translate"
    /\ langText = TxtPlotMixed \o <<" ">> \o <<"s">>
    /\ detect_language(langText) = "en"
    /\ call.result = translation_map[3][2] \o <<" ">> \o <<"s">>

\* C25: the text clean_text returns is left unchanged by a second
\* clean_text, has no whitespace at either end and has no two adjacent
\* whitespace characters
C25_CleanIsIdempotent ==
    call.op = "clean" =>
        /\ clean_text(call.result) = call.result
        /\ call.result # <<>> =>
                /\ ~IsSpace(call.result[1])
                /\ ~IsSpace(call.result[Len(call.result)])
        /\ \A i \in 1..(Len(call.result) - 1) :
                ~(IsSpace(call.result[i]) /\ IsSpace(call.result[i + 1]))

\* C26: once a query, a chunk or a language has been recorded, a second
\* record_query_pattern, record_document_access or update_user_preferences
\* with the same arguments leaves every count of the store as it is
C26_ReplayIsIdempotent ==
    /\ \A a \in LedgerArgs :
            DictHas(query_patterns, Strip(LowerText(a[1]))) =>
                SumCounts(record_query_pattern(query_patterns, a[1], a[4], a[3], now))
                    = SumCounts(query_patterns)
    /\ \A chunk \in {SampleChunk, GlossaryChunk} :
            DictHas(document_access_frequency, chunk.id) =>
                SumCounts(record_document_access(document_access_frequency,
                                                 chunk.id, DocTypeOf(chunk), now))
                    = SumCounts(document_access_frequency)
    /\ \A language \in {"bn", "en"}, topic_type \in {"story", "unknown"} :
            (/\ DictHas(Preference("language_preference"), language)
             /\ DictHas(Preference("topic_preference"), topic_type)) =>
                update_user_preferences(user_preferences, language, topic_type)
                    = user_preferences

\* C27: when the primary search of retrieve_relevant_chunks returns at
\* least one result and the first one is at distance 0.8 or less, that is
\* the only search and its result sequence is returned as it is; no call
\* issues more than two searches
C27_GoodPrimaryIsFinal ==
    call.op = "retrieve" =>
        /\ Len(call.searches) <= 2
        /\ (/\ ~call.searches[1].raised
            /\ call.searches[1].results # <<>>
            /\ call.searches[1].results[1].distance # None
            /\ call.searches[1].results[1].distance <= FallbackThreshold) =>
                /\ Len(call.searches) = 1
                /\ ~call.raised
                /\ call.result = call.searches[1].results

\* C27 witness: the primary search of a rewritten query returned several
\* results, the first exactly at distance 0.8, the search of the unrewritten
\* query would have returned something else, and the primary results were
\* returned after one search
C27_Witness ==
    /\ call.op = "retrieve"
    /\ Len(call.searches) = 1
    /\ Len(call.searches[1].results) >= 2
    /\ call.searches[1].results[1].distance = FallbackThreshold
    /\ call.searches[1].query # clean_text(call.query)
    /\ similarity_search(collection, embed, clean_text(call.query), call.k, <<>>).results
            # call.searches[1].results
    /\ call.result = call.searches[1].results

\* the User and Assistant lines of the given turns, in order
LinesOf(turns) ==
    Flatten([i \in 1..Len(turns) |->
                <<[role |-> "User", content |-> turns[i].user_query],
                  [role |-> "Assistant", content |-> turns[i].assistant_response]>>])

\* C28: at the moment generation ends for a call, the context handed to it
\* has at most six lines (three turns), every line comes from a turn the
\* buffer holds and the call has recorded nothing yet; and at the moment a
\* process_query returns, it returns the context it handed to generation and
\* the newest turn of the buffer is its query with the response it returns
C28_ContextBeforeRecording ==
    [][\A t \in Threads :
        /\ (running[t].pc = "llm" /\ running'[t].pc = "add_conversation") =>
                /\ Len(running[t].conversation_context) <= 6
                /\ \A i \in 1..Len(running[t].conversation_context) :
                        \E j \in 1..(2 * Len(conversations)) :
                            running[t].conversation_context[i]
                                = LinesOf(conversations)[j]
                /\ running[t].at = 0
        /\ (running[t].pc = "return" /\ running'[t].pc = "idle") =>
                /\ call'.result.conversation_context
                        = call'.messages.conversation_context
                /\ conversations'[Len(conversations')].user_query = call'.query
                /\ conversations'[Len(conversations')].assistant_response
                        = call'.result.response]_vars

\* C29: when two interleaved process_query calls on one memory manager
\* have both recorded their interaction and returned, the buffer holds both
\* turns and the counts of the three statistics maps have grown by the
\* contributions of both calls: two queries, two language and two topic
\* tallies, and one access per retrieved chunk of either call
C29_NoLostUpdate ==
    BothReturned =>
        /\ Len(conversations) = 2
        /\ SumCounts(query_patterns)
                = SumCounts(StatsAfterOne.query_patterns) + 2
        /\ SumCounts(document_access_frequency)
                = SumCounts(StatsAfterOne.document_access_frequency)
                    + Len(conversations[1].retrieved_chunks)
                    + Len(conversations[2].retrieved_chunks)
        /\ SumValues(DictGet(user_preferences, "language_preference"))
                = SumValues(DictGet(StatsAfterOne.user_preferences,
                                    "language_preference")) + 2
        /\ SumValues(DictGet(user_preferences, "topic_preference"))
                = SumValues(DictGet(StatsAfterOne.user_preferences,
                                    "topic_preference")) + 2

\* C30: every clear_memory empties the buffer, assigns a session id that
\* differs from the one before and leaves the three statistics maps as they
\* are, and at all times every turn in the buffer carries the current
\* session id of the store
C30_ClearStartsFreshSession ==
    /\ [](\A i \in 1..Len(conversations) :
                conversations[i].session_id = session_id)
    /\ [][clear_memory =>
            /\ conversations' = <<>>
            /\ session_id' # session_id
            /\ UNCHANGED varsStats]_vars

====
